---------------------------- MODULE Spec2Model ----------------------------
(***************************************************************************)
(* Via stitcher: candidate generation, clearance validation and the        *)
(* stitching orchestrator of via_stitcher.py.                              *)
(*                                                                         *)
(* Lengths.  The program works in integer nanometres.  Every length        *)
(* constant of the program (0.127mm, 1.0mm, 1.5mm, 2.5mm) is a multiple of *)
(* 1000nm, and TLC's integers are 32 bits wide while the program squares   *)
(* distances of millimetres, so the model counts lengths in micrometres:   *)
(* one model unit is 1000nm and from_mm(v) is v * 1000.  Python's integers *)
(* are unbounded, so no width is modelled.                                 *)
(*                                                                         *)
(* Floats.  The program mixes integers with IEEE doubles (math.sqrt, "/",  *)
(* int()).  The model computes the exact real value and then truncates as  *)
(* int() does; a comparison of a square root with an integer is made on    *)
(* the squares.                                                            *)
(***************************************************************************)
EXTENDS Integers, Sequences, FiniteSets, TLC

VARIABLES
    board,      \* the board as extract_board_data and get_nets/get_zones see it
    config,     \* the StitchingConfig of the run
    selection,  \* what the caller passes as selected_zones / selected_tracks
    pc,         \* where the run is
    work,       \* the (net, polygon) pairs generate_via_stitching still has to process
    result,     \* the StitchingResult being built
    chk,        \* the last call of check_position_parallel: its arguments and what it returned
    dialog      \* the ViaStitcherApp dialog: its widgets' values and self.result

vars == <<board, config, selection, pc, work, result, chk, dialog>>

(***************************************************************************)
(* Program constants, in micrometres.                                      *)
(***************************************************************************)
SameNetClearance == 127
ViaFilterMargin == 1500
TrackFilterMargin == 1000
MountingHoleHalf == 2500

(***************************************************************************)
(* Python arithmetic.                                                      *)
(***************************************************************************)
Abs(a) == IF a < 0 THEN -a ELSE a

\* a // b: rounds toward negative infinity, for either sign of b.
FloorDiv(a, b) == IF b < 0 THEN (-a) \div (-b) ELSE a \div b

\* int(a / b) for b > 0: rounds toward zero.
TruncDiv(a, b) == IF a >= 0 THEN a \div b ELSE -((-a) \div b)

\* math.sqrt(dsq) < m for integers dsq >= 0 and m.
SqrtLess(dsq, m) == m > 0 /\ dsq < m * m

SeqMin(s) == CHOOSE v \in {s[i] : i \in 1..Len(s)} : \A i \in 1..Len(s) : v <= s[i]

SeqMax(s) == CHOOSE v \in {s[i] : i \in 1..Len(s)} : \A i \in 1..Len(s) : v >= s[i]

(***************************************************************************)
(* Geometry primitives.  A point is <<x, y>>; a polygon is a sequence of   *)
(* points, edge i joining point i to point (i mod n) + 1.                  *)
(***************************************************************************)
\* The crossing test that leaves out the edge from the last point to the first.
PolyCrossing_SkipsClosingEdge(x, y, polygon_pts, i) ==
    LET xi == polygon_pts[i][1]
        yi == polygon_pts[i][2]
        xj == polygon_pts[IF i = 1 THEN 1 ELSE i - 1][1]
        yj == polygon_pts[IF i = 1 THEN 1 ELSE i - 1][2]
    IN  /\ (yi > y) # (yj > y)
        /\ x < FloorDiv((xj - xi) * (y - yi), yj - yi) + xi

PolyCrossing(x, y, polygon_pts, i) ==
    LET n  == Len(polygon_pts)
        j  == IF i = 1 THEN n ELSE i - 1
        xi == polygon_pts[i][1]
        yi == polygon_pts[i][2]
        xj == polygon_pts[j][1]
        yj == polygon_pts[j][2]
    IN  /\ (yi > y) # (yj > y)
        /\ x < FloorDiv((xj - xi) * (y - yi), yj - yi) + xi

point_in_polygon(x, y, polygon_pts) ==
    IF Len(polygon_pts) < 3
    THEN FALSE
    ELSE Cardinality({i \in 1..Len(polygon_pts) : PolyCrossing(x, y, polygon_pts, i)}) % 2 = 1

point_to_segment_distance_sq(px, py, x1, y1, x2, y2) ==
    LET dx        == x2 - x1
        dy        == y2 - y1
        length_sq == dx * dx + dy * dy
        num       == (px - x1) * dx + (py - y1) * dy
        closest_x == IF num <= 0 THEN x1
                     ELSE IF num >= length_sq THEN x1 + dx
                     ELSE x1 + TruncDiv(num * dx, length_sq)
        closest_y == IF num <= 0 THEN y1
                     ELSE IF num >= length_sq THEN y1 + dy
                     ELSE y1 + TruncDiv(num * dy, length_sq)
    IN  IF length_sq = 0
        THEN (px - x1) * (px - x1) + (py - y1) * (py - y1)
        ELSE (px - closest_x) * (px - closest_x) + (py - closest_y) * (py - closest_y)

\* The square of distance_to_polygon_edge, for a polygon with at least one point.
polygon_edge_distance_sq(x, y, polygon_pts) ==
    LET n == Len(polygon_pts)
    IN  SeqMin([i \in 1..n |->
            point_to_segment_distance_sq(x, y,
                polygon_pts[i][1], polygon_pts[i][2],
                polygon_pts[(i % n) + 1][1], polygon_pts[(i % n) + 1][2])])

\* distance_to_polygon_edge(x, y, polygon_pts) < m; the distance of an empty
\* polygon is +infinity.
EdgeCloserThan(x, y, polygon_pts, m) ==
    /\ polygon_pts # <<>>
    /\ SqrtLess(polygon_edge_distance_sq(x, y, polygon_pts), m)

(***************************************************************************)
(* The clearance validator, check_position_parallel.  board_data is a      *)
(* BoardData record:                                                       *)
(*   tracks        sequence of [sx, sy, ex, ey, width, net, layer,         *)
(*                              is_arc, mx, my]                            *)
(*   pads          sequence of [x, y, half_w, half_h, net]                 *)
(*   vias          sequence of [x, y, radius, net]                         *)
(*   zone_polygons sequence of [net, pts]                                  *)
(*   board_outline polygon                                                 *)
(*   copper_layers set of layer names                                      *)
(* A net name "" is no net.  polygon_pts = <<>> stands for None as well as *)
(* for the empty list: the code only tests its truth.                      *)
(***************************************************************************)
OutsideBoard(x, y, board_outline) ==
    board_outline # <<>> /\ ~point_in_polygon(x, y, board_outline)

\* BoardEdgeRejects measured from the via's centre, not from its rim.
BoardEdgeRejects_NoRadius(x, y, via_radius, boundary_clearance, board_outline) ==
    /\ board_outline # <<>>
    /\ EdgeCloserThan(x, y, board_outline, boundary_clearance)

BoardEdgeRejects(x, y, via_radius, boundary_clearance, board_outline) ==
    /\ board_outline # <<>>
    /\ EdgeCloserThan(x, y, board_outline, boundary_clearance + via_radius)

\* ZoneEdgeRejects measured from the via's centre, not from its rim.
ZoneEdgeRejects_NoRadius(x, y, via_radius, boundary_clearance, is_fence_mode, polygon_pts) ==
    /\ ~is_fence_mode
    /\ polygon_pts # <<>>
    /\ EdgeCloserThan(x, y, polygon_pts, boundary_clearance)

ZoneEdgeRejects(x, y, via_radius, boundary_clearance, is_fence_mode, polygon_pts) ==
    /\ ~is_fence_mode
    /\ polygon_pts # <<>>
    /\ EdgeCloserThan(x, y, polygon_pts, boundary_clearance + via_radius)

\* PadRequiredClearance without the exemption of large pads.
PadRequiredClearance_NoMountingHole(pad, target_nets, clearance) ==
    IF pad.net \in target_nets THEN FloorDiv(clearance, 2) ELSE clearance

PadRequiredClearance(pad, target_nets, clearance) ==
    LET is_mounting_hole == pad.half_w > MountingHoleHalf \/ pad.half_h > MountingHoleHalf
    IN  IF pad.net \in target_nets /\ ~is_mounting_hole
        THEN FloorDiv(clearance, 2)
        ELSE clearance

\* The quick filter of the pad loop: TRUE when the pad is skipped.
PadSkipped(x, y, via_radius, clearance, pad) ==
    LET max_check_dist == via_radius + clearance + pad.half_w + pad.half_h
    IN  Abs(x - pad.x) > max_check_dist \/ Abs(y - pad.y) > max_check_dist

PadRejects(x, y, via_radius, target_nets, clearance, pad) ==
    LET req_clearance == PadRequiredClearance(pad, target_nets, clearance)
    IN  /\ ~PadSkipped(x, y, via_radius, clearance, pad)
        /\ Abs(x - pad.x) < via_radius + pad.half_w + req_clearance
        /\ Abs(y - pad.y) < via_radius + pad.half_h + req_clearance

\* The quick filter of the via loop: TRUE when the via is skipped.
ViaSkipped(x, y, via_radius, clearance, via) ==
    LET max_check_dist == via_radius + clearance + ViaFilterMargin
    IN  Abs(x - via.x) > max_check_dist \/ Abs(y - via.y) > max_check_dist

ViaMinDist(via_radius, target_nets, clearance, same_net_clearance, via) ==
    via_radius + via.radius
        + (IF via.net \in target_nets THEN same_net_clearance ELSE clearance)

ViaRejects(x, y, via_radius, target_nets, clearance, same_net_clearance, via) ==
    LET dx       == x - via.x
        dy       == y - via.y
        min_dist == ViaMinDist(via_radius, target_nets, clearance, same_net_clearance, via)
    IN  /\ ~ViaSkipped(x, y, via_radius, clearance, via)
        /\ dx * dx + dy * dy < min_dist * min_dist

\* 'UNKNOWN' in layer_name
LayerIsUnknown(layer_name) == layer_name \in {"BL_UNKNOWN"}

\* The layer and bounding-box filters of the track loop: TRUE when the track is skipped.
TrackSkipped(x, y, via_radius, clearance, copper_layers, track) ==
    LET max_check_dist == via_radius + clearance + TrackFilterMargin
        xs     == IF track.is_arc THEN <<track.sx, track.mx, track.ex>>
                                  ELSE <<track.sx, track.ex>>
        ys     == IF track.is_arc THEN <<track.sy, track.my, track.ey>>
                                  ELSE <<track.sy, track.ey>>
        min_tx == SeqMin(xs)
        max_tx == SeqMax(xs)
        min_ty == SeqMin(ys)
        max_ty == SeqMax(ys)
    IN  \/ (track.layer \notin copper_layers /\ ~LayerIsUnknown(track.layer))
        \/ x < min_tx - max_check_dist \/ x > max_tx + max_check_dist
        \/ y < min_ty - max_check_dist \/ y > max_ty + max_check_dist

TrackMinDist(via_radius, target_nets, clearance, same_net_clearance, track) ==
    via_radius + FloorDiv(track.width, 2)
        + (IF track.net \in target_nets THEN same_net_clearance ELSE clearance)

TrackRejects(x, y, via_radius, target_nets, clearance, same_net_clearance, copper_layers, track) ==
    LET min_dist == TrackMinDist(via_radius, target_nets, clearance, same_net_clearance, track)
        arc_pts  == {<<track.sx, track.sy>>, <<track.mx, track.my>>, <<track.ex, track.ey>>}
    IN  /\ ~TrackSkipped(x, y, via_radius, clearance, copper_layers, track)
        /\ IF track.is_arc
           THEN \E p \in arc_pts :
                    (x - p[1]) * (x - p[1]) + (y - p[2]) * (y - p[2]) < min_dist * min_dist
           ELSE point_to_segment_distance_sq(x, y, track.sx, track.sy, track.ex, track.ey)
                    < min_dist * min_dist

\* RuleAreaRejects testing the via's centre only.
RuleAreaRejects_CentreOnly(x, y, via_radius, zone) ==
    /\ zone.net = ""
    /\ Len(zone.pts) >= 3
    /\ point_in_polygon(x, y, zone.pts)

\* RuleAreaRejects applied to the polygons of copper zones as well.
RuleAreaRejects_AnyNet(x, y, via_radius, zone) ==
    /\ Len(zone.pts) >= 3
    /\ \/ point_in_polygon(x, y, zone.pts)
       \/ EdgeCloserThan(x, y, zone.pts, via_radius)

RuleAreaRejects(x, y, via_radius, zone) ==
    /\ zone.net = ""
    /\ Len(zone.pts) >= 3
    /\ \/ point_in_polygon(x, y, zone.pts)
       \/ EdgeCloserThan(x, y, zone.pts, via_radius)

Accepted == [valid |-> TRUE, reason |-> ""]

Rejected(reason) == [valid |-> FALSE, reason |-> reason]

\* check_position_parallel with the via loop ahead of the pad loop.
check_position_parallel_ViaBeforePad(x, y, via_radius, target_nets, clearance, same_net_clearance, boundary_clearance, board_data, is_fence_mode, polygon_pts) ==
    LET tracks == board_data.tracks
        hits   == {i \in 1..Len(tracks) :
                      TrackRejects(x, y, via_radius, target_nets, clearance,
                                   same_net_clearance, board_data.copper_layers, tracks[i])}
        first  == CHOOSE i \in hits : \A k \in hits : i <= k
    IN  IF OutsideBoard(x, y, board_data.board_outline)
        THEN Rejected("outside_board")
        ELSE IF BoardEdgeRejects(x, y, via_radius, boundary_clearance, board_data.board_outline)
        THEN Rejected("board_edge")
        ELSE IF ZoneEdgeRejects(x, y, via_radius, boundary_clearance, is_fence_mode, polygon_pts)
        THEN Rejected("zone_edge")
        ELSE IF \E i \in 1..Len(board_data.vias) :
                    ViaRejects(x, y, via_radius, target_nets, clearance,
                               same_net_clearance, board_data.vias[i])
        THEN Rejected("via")
        ELSE IF \E i \in 1..Len(board_data.pads) :
                    PadRejects(x, y, via_radius, target_nets, clearance, board_data.pads[i])
        THEN Rejected("pad")
        ELSE IF hits # {}
        THEN Rejected(IF tracks[first].is_arc THEN "arc" ELSE "track")
        ELSE IF \E i \in 1..Len(board_data.zone_polygons) :
                    RuleAreaRejects(x, y, via_radius, board_data.zone_polygons[i])
        THEN Rejected("rule_area")
        ELSE Accepted

check_position_parallel(x, y, via_radius, target_nets, clearance, same_net_clearance, boundary_clearance, board_data, is_fence_mode, polygon_pts) ==
    LET tracks == board_data.tracks
        hits   == {i \in 1..Len(tracks) :
                      TrackRejects(x, y, via_radius, target_nets, clearance,
                                   same_net_clearance, board_data.copper_layers, tracks[i])}
        first  == CHOOSE i \in hits : \A k \in hits : i <= k
    IN  IF OutsideBoard(x, y, board_data.board_outline)
        THEN Rejected("outside_board")
        ELSE IF BoardEdgeRejects(x, y, via_radius, boundary_clearance, board_data.board_outline)
        THEN Rejected("board_edge")
        ELSE IF ZoneEdgeRejects(x, y, via_radius, boundary_clearance, is_fence_mode, polygon_pts)
        THEN Rejected("zone_edge")
        ELSE IF \E i \in 1..Len(board_data.pads) :
                    PadRejects(x, y, via_radius, target_nets, clearance, board_data.pads[i])
        THEN Rejected("pad")
        ELSE IF \E i \in 1..Len(board_data.vias) :
                    ViaRejects(x, y, via_radius, target_nets, clearance,
                               same_net_clearance, board_data.vias[i])
        THEN Rejected("via")
        ELSE IF hits # {}
        THEN Rejected(IF tracks[first].is_arc THEN "arc" ELSE "track")
        ELSE IF \E i \in 1..Len(board_data.zone_polygons) :
                    RuleAreaRejects(x, y, via_radius, board_data.zone_polygons[i])
        THEN Rejected("rule_area")
        ELSE Accepted

(***************************************************************************)
(* The board.  A board is a record                                         *)
(*   nets    set of net names (get_nets)                                   *)
(*   zones   sequence of [net, filled, outline]: filled is the sequence of *)
(*           filled polygons, outline the zone's own outline               *)
(*   tracks  sequence of track records, as in BoardData                    *)
(*   pads    sequence of [x, y, layers, net]: layers is the sequence of    *)
(*           <<size_x, size_y>> of the padstack's copper layers            *)
(*   vias    sequence of [x, y, diameter, net]                             *)
(*   outline the polygon get_board_outline returns                         *)
(***************************************************************************)
get_zone_filled_polygons(zone) ==
    LET polygons == SelectSeq(zone.filled, LAMBDA pts : pts # <<>>)
    IN  IF polygons # <<>> THEN polygons
        ELSE IF zone.outline # <<>> THEN <<zone.outline>>
        ELSE <<>>

\* The layer names get_all_copper_layers keeps: one of F_Cu, B_Cu, In in the
\* name, and Cu in the name.
CopperLayerNames == {"BL_F_Cu", "BL_B_Cu", "BL_In1_Cu", "BL_In2_Cu"}

get_all_copper_layers(b) ==
    {"BL_F_Cu", "BL_B_Cu"}
        \cup ({b.tracks[i].layer : i \in 1..Len(b.tracks)} \cap CopperLayerNames)

RECURSIVE Flatten(_)
Flatten(seqs) == IF seqs = <<>> THEN <<>> ELSE Head(seqs) \o Flatten(Tail(seqs))

PadHalf(pad, axis) ==
    LET halves == [i \in 1..Len(pad.layers) |-> FloorDiv(pad.layers[i][axis], 2)]
    IN  IF SeqMax(halves) > 0 THEN SeqMax(halves) ELSE 0

extract_board_data(b) ==
    [tracks        |-> b.tracks,
     pads          |-> [i \in 1..Len(SelectSeq(b.pads, LAMBDA p : p.layers # <<>>)) |->
                           LET pad == SelectSeq(b.pads, LAMBDA p : p.layers # <<>>)[i]
                           IN  [x |-> pad.x, y |-> pad.y,
                                half_w |-> PadHalf(pad, 1), half_h |-> PadHalf(pad, 2),
                                net |-> pad.net]],
     vias          |-> [i \in 1..Len(b.vias) |->
                           [x |-> b.vias[i].x, y |-> b.vias[i].y,
                            radius |-> FloorDiv(b.vias[i].diameter, 2),
                            net |-> b.vias[i].net]],
     zone_polygons |-> Flatten([i \in 1..Len(b.zones) |->
                           [k \in 1..Len(get_zone_filled_polygons(b.zones[i])) |->
                               [net |-> b.zones[i].net,
                                pts |-> get_zone_filled_polygons(b.zones[i])[k]]]]),
     board_outline |-> b.outline,
     copper_layers |-> get_all_copper_layers(b)]

(***************************************************************************)
(* StitchingConfig and StitchingResult.                                    *)
(***************************************************************************)
DefaultConfig ==
    [net_names            |-> <<"GND">>,
     via_diameter_nm      |-> 600,
     grid_spacing_nm      |-> 2000,
     stagger_rows         |-> TRUE,
     clearance_nm         |-> 200,
     boundary_clearance_nm |-> 300,
     random_offset        |-> FALSE,
     random_offset_max_nm |-> 200,
     mode                 |-> "fill",
     fence_spacing_nm     |-> 1000,
     fence_offset_nm      |-> 500,
     fence_both_sides     |-> TRUE,
     selected_only        |-> FALSE]

Range(s) == {s[i] : i \in 1..Len(s)}

via_radius_of(cfg) == FloorDiv(cfg.via_diameter_nm, 2)

StitchingResult ==
    [zones_found |-> 0, tracks_found |-> 0, candidates |-> 0, valid |-> 0,
     rejected |-> 0, rejected_reasons |-> <<>>, vias |-> <<>>]

EmptyBoard ==
    [nets |-> {"GND", "SIG"}, zones |-> <<>>, tracks |-> <<>>, pads |-> <<>>,
     vias |-> <<>>, outline |-> <<>>]

NoSelection == [zones |-> <<>>, tracks |-> <<>>]

NoCheck ==
    [called |-> FALSE, x |-> 0, y |-> 0, is_fence_mode |-> FALSE, polygon_pts |-> <<>>,
     res |-> Accepted]

\* The dialog before anything happened in it: the widgets show a
\* configuration, auto-preview is ticked, and self.result is None (no
\* preview has run: no vias to apply).
DialogOf(shown) ==
    [shown |-> shown, auto_preview |-> TRUE, result |-> StitchingResult]

NoDialog == DialogOf(DefaultConfig)

(***************************************************************************)
(* Applying the validator to one candidate, as check_positions_batch does  *)
(* for each position of its batch, with the arguments the orchestrator     *)
(* derives from the configuration.                                         *)
(***************************************************************************)
CheckOne(x, y, cfg, b, is_fence_mode, polygon_pts) ==
    check_position_parallel(x, y, via_radius_of(cfg), Range(cfg.net_names),
                            cfg.clearance_nm, SameNetClearance,
                            cfg.boundary_clearance_nm, extract_board_data(b),
                            is_fence_mode, polygon_pts)

\* The candidates the validator is exercised on: every x of a range, on a
\* few rows.
MaxCoord == 3200

CandX == (0 - MaxCoord)..MaxCoord

CheckCandidate(xs, ys, polys, fence_modes) ==
    /\ pc = "check"
    /\ ~chk.called
    /\ \E x \in xs, y \in ys, is_fence_mode \in fence_modes, polygon_pts \in polys :
          chk' = [called |-> TRUE, x |-> x, y |-> y, is_fence_mode |-> is_fence_mode,
                  polygon_pts |-> polygon_pts,
                  res |-> CheckOne(x, y, config, board, is_fence_mode, polygon_pts)]
    /\ UNCHANGED <<board, config, selection, pc, work, result, dialog>>

InitCheck ==
    /\ pc = "check"
    /\ selection = NoSelection
    /\ work = <<>>
    /\ result = StitchingResult
    /\ chk = NoCheck
    /\ dialog = NoDialog

(***************************************************************************)
(* Existing vias: one via at the origin, of a typical or a large diameter, *)
(* on a target net, another net or no net.                                 *)
(***************************************************************************)
ViaBoards ==
    {[EmptyBoard EXCEPT !.vias = <<[x |-> 0, y |-> 0, diameter |-> d, net |-> n]>>] :
        d \in {600, 601, 2900, 4000}, n \in {"GND", "SIG", ""}}

ViaRows == {0, 640}

InitVia ==
    /\ InitCheck
    /\ board \in ViaBoards
    /\ config \in {[DefaultConfig EXCEPT !.clearance_nm = c] : c \in {50, 200}}

CheckVia == CheckCandidate(CandX, ViaRows, {<<>>}, {FALSE})

NextVia == CheckVia

SpecVia == InitVia /\ [][NextVia]_vars

(***************************************************************************)
(* Existing tracks: one straight track or arc near the origin, narrow or   *)
(* wide, on a copper layer, the unknown layer or a layer that is no copper *)
(* layer.                                                                  *)
(***************************************************************************)
TrackShapes ==
    {[sx |-> 0, sy |-> 0, ex |-> 100, ey |-> 0,  is_arc |-> FALSE, mx |-> 0,  my |-> 0],
     [sx |-> 0, sy |-> 0, ex |-> 60,  ey |-> 80, is_arc |-> FALSE, mx |-> 0,  my |-> 0],
     [sx |-> 0, sy |-> 0, ex |-> 0,   ey |-> 0,  is_arc |-> FALSE, mx |-> 0,  my |-> 0],
     [sx |-> 0, sy |-> 0, ex |-> 100, ey |-> 0,  is_arc |-> TRUE,  mx |-> 50, my |-> 50]}

TrackOf(shape, width, net, layer) ==
    [sx |-> shape.sx, sy |-> shape.sy, ex |-> shape.ex, ey |-> shape.ey,
     width |-> width, net |-> net, layer |-> layer,
     is_arc |-> shape.is_arc, mx |-> shape.mx, my |-> shape.my]

TrackBoards ==
    {[EmptyBoard EXCEPT !.tracks = <<TrackOf(sh, w, n, l)>>] :
        sh \in TrackShapes, w \in {200, 3001}, n \in {"GND", "SIG"},
        l \in {"BL_In1_Cu", "BL_UNKNOWN", "BL_Dwgs_User"}}

TrackRows == {0, 640}

InitTrack ==
    /\ InitCheck
    /\ board \in TrackBoards
    /\ config \in {[DefaultConfig EXCEPT !.clearance_nm = c] : c \in {50, 200}}

CheckTrack == CheckCandidate(CandX, TrackRows, {<<>>}, {FALSE})

NextTrack == CheckTrack

SpecTrack == InitTrack /\ [][NextTrack]_vars

(***************************************************************************)
(* Pads: a small pad, a pad of exactly 2.5mm half-extent, a pad whose      *)
(* second copper layer is larger than 2.5mm (a mounting hole) and a pad    *)
(* without copper layers, on a target net or another net; one or two pads. *)
(* The candidate is checked without and with a containing zone polygon.    *)
(***************************************************************************)
PadStacks ==
    {<<<<1000, 600>>>>,
     <<<<5000, 5000>>>>,
     <<<<1000, 600>>, <<5002, 200>>>>,
     <<>>}

PadAt(x, y, layers, net) == [x |-> x, y |-> y, layers |-> layers, net |-> net]

PadBoards ==
    {[EmptyBoard EXCEPT !.pads = <<PadAt(0, 0, ls, n)>>] :
        ls \in PadStacks, n \in {"GND", "SIG"}}
    \cup
    {[EmptyBoard EXCEPT !.pads = <<PadAt(-2000, 0, <<<<1000, 600>>>>, "SIG"),
                                  PadAt(1500, 640, <<<<1000, 600>>>>, n)>>] :
        n \in {"GND", "SIG"}}

PadRows == {0, 640, 750, 2900}

PadZonePolygon ==
    <<<<-600, -600>>, <<600, -600>>, <<600, 400>>, <<600, 1400>>, <<600, 2400>>,
      <<600, 3400>>, <<-600, 3400>>, <<-600, 2400>>, <<-600, 1400>>, <<-600, 400>>>>

InitPad ==
    /\ InitCheck
    /\ board \in PadBoards
    /\ config \in {[DefaultConfig EXCEPT !.clearance_nm = c, !.boundary_clearance_nm = 100] :
                      c \in {50, 201}}

CheckPad == CheckCandidate(CandX, PadRows, {<<>>, PadZonePolygon}, {FALSE})

NextPad == CheckPad

SpecPad == InitPad /\ [][NextPad]_vars

(***************************************************************************)
(* Board outlines: none, a rectangle, the same rectangle as four segments  *)
(* (start and end of each), an L shape, and a single segment.              *)
(***************************************************************************)
Outlines ==
    {<<>>,
     <<<<0, 0>>, <<1000, 0>>, <<1000, 800>>, <<0, 800>>>>,
     <<<<0, 0>>, <<1000, 0>>, <<1000, 0>>, <<1000, 800>>,
       <<1000, 800>>, <<0, 800>>, <<0, 800>>, <<0, 0>>>>,
     <<<<0, 0>>, <<1000, 0>>, <<1000, 400>>, <<500, 400>>, <<500, 800>>, <<0, 800>>>>,
     <<<<0, 0>>, <<1000, 0>>>>}

OutlineBoards == {[EmptyBoard EXCEPT !.outline = o] : o \in Outlines}

OutlineRows == {-10, 0, 199, 200, 400, 600}

InitOutline ==
    /\ InitCheck
    /\ board \in OutlineBoards
    /\ config \in {[DefaultConfig EXCEPT !.via_diameter_nm = d, !.boundary_clearance_nm = bc] :
                      d \in {200, 600}, bc \in {100, 300}}

CheckOutline == CheckCandidate(CandX, OutlineRows, {<<>>}, {TRUE})

NextOutline == CheckOutline

SpecOutline == InitOutline /\ [][NextOutline]_vars

(***************************************************************************)
(* Zones: rule areas (no net) and copper zones (a net), given by their     *)
(* outline or by filled polygons; among the rule areas a square, a         *)
(* triangle, and outlines of two points and of one point.                  *)
(***************************************************************************)
ZoneShapes ==
    {<<<<0, 0>>, <<1000, 0>>, <<1000, 800>>, <<0, 800>>>>,
     <<<<0, 0>>, <<1000, 0>>, <<0, 800>>>>,
     <<<<0, 0>>, <<1000, 0>>>>,
     <<<<500, 400>>>>}

ZoneOf(net, filled, outline) == [net |-> net, filled |-> filled, outline |-> outline]

ZoneBoards ==
    {[EmptyBoard EXCEPT !.zones = <<ZoneOf(n, <<>>, sh)>>] :
        n \in {"", "SIG"}, sh \in ZoneShapes}
    \cup
    {[EmptyBoard EXCEPT !.zones = <<ZoneOf("SIG", <<sh>>, <<>>), ZoneOf("", <<>>, sh)>>] :
        sh \in ZoneShapes}

ZoneRows == {-301, -300, -299, 0, 400}

InitRule ==
    /\ InitCheck
    /\ board \in ZoneBoards
    /\ config \in {[DefaultConfig EXCEPT !.via_diameter_nm = d] : d \in {200, 600}}

CheckRule == CheckCandidate(CandX, ZoneRows, {<<>>}, {TRUE})

NextRule == CheckRule

SpecRule == InitRule /\ [][NextRule]_vars

(***************************************************************************)
(* Boards on which one candidate can fail several checks at once: an       *)
(* outline (or none), a pad, a via, a track and an arc (in either order)   *)
(* and a rule area side by side, checked in fill mode and in fence mode,   *)
(* with and without a containing zone polygon.                             *)
(***************************************************************************)
CrowdedTracks ==
    <<TrackOf([sx |-> 600, sy |-> 250, ex |-> 700, ey |-> 350,
               is_arc |-> FALSE, mx |-> 0, my |-> 0], 100, "SIG", "BL_F_Cu"),
      TrackOf([sx |-> 650, sy |-> 300, ex |-> 850, ey |-> 300,
               is_arc |-> TRUE, mx |-> 750, my |-> 350], 100, "SIG", "BL_B_Cu")>>

CrowdedBoard ==
    [EmptyBoard EXCEPT
        !.outline = <<<<0, 0>>, <<1200, 0>>, <<1200, 1000>>, <<0, 1000>>>>,
        !.pads    = <<PadAt(300, 300, <<<<200, 200>>>>, "SIG")>>,
        !.vias    = <<[x |-> 500, y |-> 300, diameter |-> 200, net |-> "SIG"]>>,
        !.tracks  = CrowdedTracks,
        !.zones   = <<ZoneOf("", <<>>, <<<<800, 200>>, <<1000, 200>>, <<1000, 400>>, <<800, 400>>>>),
                      ZoneOf("GND", <<>>, <<<<100, 100>>, <<1100, 100>>, <<1100, 900>>, <<100, 900>>>>)>>]

OrderBoards ==
    {CrowdedBoard,
     [CrowdedBoard EXCEPT !.outline = <<>>],
     [CrowdedBoard EXCEPT !.tracks = <<CrowdedTracks[2], CrowdedTracks[1]>>],
     [CrowdedBoard EXCEPT !.outline = <<>>, !.pads = <<>>]}

\* Every x from OrderMargin left of the outline to OrderMargin right of it.
OrderMargin == 50

OrderX == (0 - OrderMargin)..(1200 + OrderMargin)

OrderRows == {50, 150, 300, 350}

OrderZonePolygon == <<<<100, 100>>, <<1100, 100>>, <<1100, 900>>, <<100, 900>>>>

InitOrder ==
    /\ InitCheck
    /\ board \in OrderBoards
    /\ config \in {[DefaultConfig EXCEPT !.via_diameter_nm = 200, !.clearance_nm = c,
                                         !.boundary_clearance_nm = 100] : c \in {50, 200}}

CheckOrder == CheckCandidate(OrderX, OrderRows, {<<>>, OrderZonePolygon}, BOOLEAN)

NextOrder == CheckOrder

SpecOrder == InitOrder /\ [][NextOrder]_vars

(***************************************************************************)
(* Candidate generators.                                                   *)
(***************************************************************************)
\* The lattice with the half-spacing offset on every row.
GridRow_StaggerEveryRow(start_x, y, row, max_x, cfg) ==
    LET spacing    == cfg.grid_spacing_nm
        row_offset == IF cfg.stagger_rows THEN FloorDiv(spacing, 2) ELSE 0
        x0         == start_x + row_offset
        n          == IF x0 > max_x THEN 0 ELSE ((max_x - x0) \div spacing) + 1
    IN  [k \in 1..n |-> <<x0 + (k - 1) * spacing, y>>]

\* The points generate_grid_positions visits before any random offset, row
\* by row: rows start at the first multiple of the spacing at or above
\* min_y, columns at the first multiple at or above min_x, moved right by
\* half a spacing on odd rows when stagger_rows is set.
GridRow(start_x, y, row, max_x, cfg) ==
    LET spacing    == cfg.grid_spacing_nm
        row_offset == IF cfg.stagger_rows /\ row % 2 = 1 THEN FloorDiv(spacing, 2) ELSE 0
        x0         == start_x + row_offset
        n          == IF x0 > max_x THEN 0 ELSE ((max_x - x0) \div spacing) + 1
    IN  [k \in 1..n |-> <<x0 + (k - 1) * spacing, y>>]

\* The lattice with the corner snapped by a division rounding toward zero.
GridLattice_TruncatingSnap(min_x, min_y, max_x, max_y, cfg) ==
    LET spacing == cfg.grid_spacing_nm
        start_x == TruncDiv(min_x + spacing - 1, spacing) * spacing
        start_y == TruncDiv(min_y + spacing - 1, spacing) * spacing
        rows    == IF start_y > max_y THEN 0 ELSE ((max_y - start_y) \div spacing) + 1
    IN  Flatten([r \in 1..rows |->
                    GridRow(start_x, start_y + (r - 1) * spacing, r - 1, max_x, cfg)])

GridLattice(min_x, min_y, max_x, max_y, cfg) ==
    LET spacing == cfg.grid_spacing_nm
        start_x == FloorDiv(min_x + spacing - 1, spacing) * spacing
        start_y == FloorDiv(min_y + spacing - 1, spacing) * spacing
        rows    == IF start_y > max_y THEN 0 ELSE ((max_y - start_y) \div spacing) + 1
    IN  Flatten([r \in 1..rows |->
                    GridRow(start_x, start_y + (r - 1) * spacing, r - 1, max_x, cfg)])

\* jitter[k] is the pair of random.randint draws made for the k-th point; it
\* is read only when random_offset is set.
generate_grid_positions(min_x, min_y, max_x, max_y, cfg, jitter) ==
    LET lattice == GridLattice(min_x, min_y, max_x, max_y, cfg)
    IN  [k \in 1..Len(lattice) |->
            IF cfg.random_offset
            THEN <<lattice[k][1] + jitter[k][1], lattice[k][2] + jitter[k][2]>>
            ELSE lattice[k]]

\* The draws random.randint(-max_offset, max_offset) can make for n points.
JitterChoices(cfg, n) ==
    IF cfg.random_offset
    THEN [1..n -> ((0 - cfg.random_offset_max_nm)..cfg.random_offset_max_nm)
                     \X ((0 - cfg.random_offset_max_nm)..cfg.random_offset_max_nm)]
    ELSE {[k \in 1..n |-> <<0, 0>>]}

\* The vias generate_fence_positions puts on one polygon edge.
FenceSegment(x1, y1, x2, y2, spacing_nm) ==
    LET dx        == x2 - x1
        dy        == y2 - y1
        length_sq == dx * dx + dy * dy
        \* int(length / spacing_nm)
        num_vias  == CHOOSE k \in 0..((Abs(dx) + Abs(dy)) \div spacing_nm) :
                        /\ (k * spacing_nm) * (k * spacing_nm) <= length_sq
                        /\ length_sq < ((k + 1) * spacing_nm) * ((k + 1) * spacing_nm)
    IN  IF SqrtLess(length_sq, spacing_nm)
        THEN <<<<FloorDiv(x1 + x2, 2), FloorDiv(y1 + y2, 2)>>>>
        ELSE [j \in 1..num_vias |->
                <<TruncDiv(2 * num_vias * x1 + (2 * j - 1) * dx, 2 * num_vias),
                  TruncDiv(2 * num_vias * y1 + (2 * j - 1) * dy, 2 * num_vias)>>]

\* The perimeter walk without the closing edge from the last point to the first.
generate_fence_positions_OpenPath(polygon_pts, spacing_nm) ==
    LET n == Len(polygon_pts)
    IN  IF n < 2
        THEN <<>>
        ELSE Flatten([i \in 1..(n - 1) |->
                FenceSegment(polygon_pts[i][1], polygon_pts[i][2],
                             polygon_pts[i + 1][1], polygon_pts[i + 1][2],
                             spacing_nm)])

generate_fence_positions(polygon_pts, spacing_nm) ==
    LET n == Len(polygon_pts)
    IN  IF n < 2
        THEN <<>>
        ELSE Flatten([i \in 1..n |->
                FenceSegment(polygon_pts[i][1], polygon_pts[i][2],
                             polygon_pts[(i % n) + 1][1], polygon_pts[(i % n) + 1][2],
                             spacing_nm)])

(***************************************************************************)
(* Trace fencing.  The selected tracks the model chains, offsets and        *)
(* samples are straight and horizontal or vertical, and join without        *)
(* corners; for these every intermediate value is an integer.  A path is a  *)
(* sequence of points.                                                      *)
(***************************************************************************)
ChainTolerance == 10

points_close(p1, p2) ==
    Abs(p1[1] - p2[1]) < ChainTolerance /\ Abs(p1[2] - p2[2]) < ChainTolerance

Reverse(s) == [i \in 1..Len(s) |-> s[Len(s) + 1 - i]]

Front(s) == SubSeq(s, 1, Len(s) - 1)

\* The pass joining segments at the end of the path only.
RECURSIVE ExtendPass_AppendOnly(_, _, _)
ExtendPass_AppendOnly(st, segments, j) ==
    IF j > Len(segments) THEN st
    ELSE IF j \in st.used THEN ExtendPass_AppendOnly(st, segments, j + 1)
    ELSE LET other_seg == segments[j]
             path      == st.path
             joined    ==
                 IF points_close(other_seg[1], path[Len(path)])
                 THEN <<path \o Tail(other_seg)>>
                 ELSE IF points_close(other_seg[Len(other_seg)], path[Len(path)])
                 THEN <<path \o Reverse(Front(other_seg))>>
                 ELSE <<>>
         IN  ExtendPass_AppendOnly(IF joined # <<>>
                                   THEN [path |-> joined[1], used |-> st.used \cup {j},
                                         changed |-> TRUE]
                                   ELSE st,
                                   segments, j + 1)

\* One pass of the inner for-loop over the segments from index j on; st is
\* [path, used, changed].
RECURSIVE ExtendPass(_, _, _)
ExtendPass(st, segments, j) ==
    IF j > Len(segments) THEN st
    ELSE IF j \in st.used THEN ExtendPass(st, segments, j + 1)
    ELSE LET other_seg == segments[j]
             path      == st.path
             joined    ==
                 IF points_close(other_seg[Len(other_seg)], path[1])
                 THEN <<Front(other_seg) \o path>>
                 ELSE IF points_close(other_seg[1], path[1])
                 THEN <<Reverse(Tail(other_seg)) \o path>>
                 ELSE IF points_close(other_seg[1], path[Len(path)])
                 THEN <<path \o Tail(other_seg)>>
                 ELSE IF points_close(other_seg[Len(other_seg)], path[Len(path)])
                 THEN <<path \o Reverse(Front(other_seg))>>
                 ELSE <<>>
         IN  ExtendPass(IF joined # <<>>
                        THEN [path |-> joined[1], used |-> st.used \cup {j}, changed |-> TRUE]
                        ELSE st,
                        segments, j + 1)

\* The growth of a path stopped after one pass over the segments.
GrowPath_SinglePass(path, used, segments) ==
    ExtendPass([path |-> path, used |-> used, changed |-> FALSE], segments, 1)

\* The while-changed loop.
RECURSIVE GrowPath(_, _, _)
GrowPath(path, used, segments) ==
    LET st == ExtendPass([path |-> path, used |-> used, changed |-> FALSE], segments, 1)
    IN  IF st.changed THEN GrowPath(st.path, st.used, segments) ELSE st

\* The outer for-loop with the used flags dropped after each path: a segment
\* merged into an earlier path starts a path of its own again.
RECURSIVE ChainFrom_ForgetsUsed(_, _, _)
ChainFrom_ForgetsUsed(i, used, segments) ==
    IF i > Len(segments) THEN <<>>
    ELSE LET st == GrowPath(segments[i], {i}, segments)
         IN  <<[path |-> st.path, consumed |-> st.used]>>
                 \o ChainFrom_ForgetsUsed(i + 1, used, segments)

\* The outer for-loop from index i on: each path with the indices of the
\* segments whose used flag was set while it was built.
RECURSIVE ChainFrom(_, _, _)
ChainFrom(i, used, segments) ==
    IF i > Len(segments) THEN <<>>
    ELSE IF i \in used THEN ChainFrom(i + 1, used, segments)
    ELSE LET st == GrowPath(segments[i], used \cup {i}, segments)
         IN  <<[path |-> st.path, consumed |-> st.used \ used]>>
                 \o ChainFrom(i + 1, st.used, segments)

\* The segment list of straight tracks: (start, end) of each track.
track_segments(tracks) ==
    [i \in 1..Len(tracks) |->
        <<<<tracks[i].sx, tracks[i].sy>>, <<tracks[i].ex, tracks[i].ey>>>>]

chain_segments(segments) == ChainFrom(1, {}, segments)

chain_tracks_into_paths(tracks) ==
    LET chained == chain_segments(track_segments(tracks))
    IN  [k \in 1..Len(chained) |-> chained[k].path]

Sgn(a) == IF a > 0 THEN 1 ELSE IF a < 0 THEN -1 ELSE 0

\* int(v + s * offset / sqrt(2)) for s in {-1, 0, 1} and offset > 0: the
\* quotient is irrational, and int() rounds the sum toward zero.
DiagonalOffset(v, s, offset) ==
    LET k == CHOOSE c \in 0..offset :
                 2 * c * c <= offset * offset /\ offset * offset < 2 * (c + 1) * (c + 1)
    IN  IF s = 0 THEN v
        ELSE IF s > 0 THEN (IF v + k >= 0 THEN v + k ELSE v + k + 1)
        ELSE (IF v - k - 1 >= 0 THEN v - k - 1 ELSE v - k)

\* The direction at point i of the path, as a pair of signs added up: the
\* outgoing segment at the first point, the incoming one at the last, the sum
\* of the two unit vectors in between.
PathDirection(path, i) ==
    LET n    == Len(path)
        inc  == IF i = 1 THEN <<0, 0>>
                ELSE <<Sgn(path[i][1] - path[i - 1][1]), Sgn(path[i][2] - path[i - 1][2])>>
        outg == IF i = n THEN <<0, 0>>
                ELSE <<Sgn(path[i + 1][1] - path[i][1]), Sgn(path[i + 1][2] - path[i][2])>>
    IN  IF i = 1 THEN outg
        ELSE IF i = n THEN inc
        ELSE IF inc # <<0, 0>> /\ outg # <<0, 0>> THEN <<inc[1] + outg[1], inc[2] + outg[2]>>
        ELSE IF inc # <<0, 0>> THEN inc
        ELSE outg

generate_offset_path(path, offset, side) ==
    IF Len(path) < 2
    THEN <<>>
    ELSE LET kept == SelectSeq([i \in 1..Len(path) |-> i],
                               LAMBDA i : PathDirection(path, i) # <<0, 0>>)
             point(i) ==
                 LET d         == PathDirection(path, i)
                     length_sq == d[1] * d[1] + d[2] * d[2]
                 IN  IF length_sq = 2
                     THEN <<DiagonalOffset(path[i][1], (0 - Sgn(d[2])) * side, offset),
                            DiagonalOffset(path[i][2], Sgn(d[1]) * side, offset)>>
                     ELSE <<path[i][1] + offset * (0 - Sgn(d[2])) * side,
                            path[i][2] + offset * Sgn(d[1]) * side>>
         IN  [k \in 1..Len(kept) |-> point(kept[k])]

\* math.sqrt(dx * dx + dy * dy) of a segment whose length is an integer: a
\* horizontal or vertical one, or the hypotenuse of a Pythagorean triple.
SegmentLength(dx, dy) ==
    IF dx = 0 \/ dy = 0 THEN Abs(dx) + Abs(dy)
    ELSE CHOOSE l \in 1..(Abs(dx) + Abs(dy)) : l * l = dx * dx + dy * dy

\* The loop of sample_path_at_intervals from segment i on: the sample at
\* distance pos is int(x1 + pos / seg_len * dx), the quotient taken exactly.
RECURSIVE SampleFrom(_, _, _, _, _)
SampleFrom(path, spacing, i, samples, accumulated_dist) ==
    IF i > Len(path) THEN samples
    ELSE LET x1      == path[i - 1][1]
             y1      == path[i - 1][2]
             dx      == path[i][1] - x1
             dy      == path[i][2] - y1
             seg_len == SegmentLength(dx, dy)
             first   == spacing - accumulated_dist
             count   == IF first > seg_len THEN 0 ELSE ((seg_len - first) \div spacing) + 1
             walked  == [k \in 1..count |->
                            LET pos == first + (k - 1) * spacing
                            IN  <<TruncDiv(x1 * seg_len + pos * dx, seg_len),
                                  TruncDiv(y1 * seg_len + pos * dy, seg_len)>>]
         IN  IF seg_len = 0
             THEN SampleFrom(path, spacing, i + 1, samples, accumulated_dist)
             ELSE SampleFrom(path, spacing, i + 1, samples \o walked,
                             (accumulated_dist + seg_len) % spacing)

\* The resampler without its closing step.
sample_path_at_intervals_NoFinalPoint(path, spacing) ==
    IF Len(path) < 2
    THEN path
    ELSE SampleFrom(path, spacing, 2, <<path[1]>>, 0)

sample_path_at_intervals(path, spacing) ==
    IF Len(path) < 2
    THEN path
    ELSE LET samples == SampleFrom(path, spacing, 2, <<path[1]>>, 0)
         IN  IF samples[Len(samples)] # path[Len(path)]
             THEN Append(samples, path[Len(path)])
             ELSE samples

generate_path_fence_positions(tracks, spacing_nm, offset_nm, both_sides) ==
    LET paths == chain_tracks_into_paths(tracks)
        sides == IF both_sides THEN <<1, -1>> ELSE <<1>>
        fence(path, side) ==
            LET offset_path == generate_offset_path(path, offset_nm, side)
            IN  IF Len(offset_path) < 2 THEN <<>>
                ELSE sample_path_at_intervals(offset_path, spacing_nm)
    IN  Flatten([p \in 1..Len(paths) |->
            IF Len(paths[p]) < 2 THEN <<>>
            ELSE Flatten([s \in 1..Len(sides) |-> fence(paths[p], sides[s])])])

(***************************************************************************)
(* The orchestrator.  A value of result.rejected_reasons is what Python     *)
(* stores under the key: an integer count or a message string.              *)
(***************************************************************************)
ReasonCount(n) == [is_count |-> TRUE, count |-> n, message |-> ""]

ReasonMessage(text) == [is_count |-> FALSE, count |-> 0, message |-> text]

Failure(res, key, text) ==
    [res EXCEPT !.rejected_reasons =
        [r \in DOMAIN res.rejected_reasons \cup {key} |->
            IF r = key THEN ReasonMessage(text) ELSE res.rejected_reasons[r]]]

check_positions_batch(positions, cfg, b, is_fence_mode, polygon_pts) ==
    [i \in 1..Len(positions) |->
        LET r == CheckOne(positions[i][1], positions[i][2], cfg, b, is_fence_mode, polygon_pts)
        IN  [x |-> positions[i][1], y |-> positions[i][2], valid |-> r.valid, reason |-> r.reason]]

\* The results loop with the count of rejected candidates left out.
process_results_RejectedNotCounted(res, check_results, net, cfg) ==
    LET accepted == SelectSeq(check_results, LAMBDA r : r.valid)
    IN  [res EXCEPT
            !.vias  = @ \o [i \in 1..Len(accepted) |->
                              [x |-> accepted[i].x, y |-> accepted[i].y, net |-> net,
                               diameter |-> cfg.via_diameter_nm]],
            !.valid = @ + Len(accepted)]

\* The results loop: an accepted candidate becomes a via of the net, a
\* rejected one is counted under its reason.
process_results(res, check_results, net, cfg) ==
    LET accepted == SelectSeq(check_results, LAMBDA r : r.valid)
        refused  == {i \in 1..Len(check_results) : ~check_results[i].valid}
        reasons  == {check_results[i].reason : i \in refused}
        before(r) == IF r \in DOMAIN res.rejected_reasons
                     THEN res.rejected_reasons[r].count ELSE 0
        counted  == [r \in DOMAIN res.rejected_reasons \cup reasons |->
                        IF r \in reasons
                        THEN ReasonCount(before(r)
                                 + Cardinality({i \in refused : check_results[i].reason = r}))
                        ELSE res.rejected_reasons[r]]
    IN  [res EXCEPT
            !.vias     = @ \o [i \in 1..Len(accepted) |->
                                 [x |-> accepted[i].x, y |-> accepted[i].y, net |-> net,
                                  diameter |-> cfg.via_diameter_nm]],
            !.valid    = @ + Len(accepted),
            !.rejected = @ + Cardinality(refused),
            !.rejected_reasons = IF reasons = {} THEN @ ELSE counted]

net_objects(b, cfg) == b.nets \cap Range(cfg.net_names)

target_zones(b, cfg, sel) ==
    LET on_target(z) == z.net # "" /\ z.net \in Range(cfg.net_names)
    IN  IF cfg.selected_only /\ sel.zones # <<>>
        THEN SelectSeq(sel.zones, on_target)
        ELSE SelectSeq(b.zones, on_target)

\* The polygons the zone loop processes, in order, each with its zone's net.
zone_work(b, cfg, sel) ==
    LET zones == target_zones(b, cfg, sel)
    IN  Flatten([i \in 1..Len(zones) |->
            IF zones[i].net \notin net_objects(b, cfg) THEN <<>>
            ELSE [k \in 1..Len(get_zone_filled_polygons(zones[i])) |->
                     [net |-> zones[i].net,
                      polygon_pts |-> get_zone_filled_polygons(zones[i])[k]]]])

\* The candidates of one polygon: the grid points inside it, or the fence
\* around it.
zone_positions(polygon_pts, cfg, jitter) ==
    LET all_x == [i \in 1..Len(polygon_pts) |-> polygon_pts[i][1]]
        all_y == [i \in 1..Len(polygon_pts) |-> polygon_pts[i][2]]
    IN  IF cfg.mode = "fill"
        THEN SelectSeq(generate_grid_positions(SeqMin(all_x), SeqMin(all_y),
                                               SeqMax(all_x), SeqMax(all_y), cfg, jitter),
                       LAMBDA p : point_in_polygon(p[1], p[2], polygon_pts))
        ELSE generate_fence_positions(polygon_pts, cfg.fence_spacing_nm)

\* generate_trace_fencing once the fence net and the tracks to fence are
\* known: one batch of candidates, generated, counted, checked and recorded.
fence_tracks(b, cfg, tracks_to_fence, fence_net) ==
    LET all_positions == generate_path_fence_positions(tracks_to_fence,
                             cfg.fence_spacing_nm, cfg.fence_offset_nm,
                             cfg.fence_both_sides)
    IN  process_results([StitchingResult EXCEPT !.tracks_found = Len(tracks_to_fence),
                                                !.candidates = Len(all_positions)],
                        check_positions_batch(all_positions, cfg, b, TRUE, <<>>),
                        fence_net, cfg)

\* generate_trace_fencing falling back to the tracks of the board when
\* nothing is selected.
generate_trace_fencing_AllTracks(b, cfg, selected_tracks) ==
    IF net_objects(b, cfg) = {}
    THEN Failure(StitchingResult, "no_nets", "No matching nets found for fence vias")
    ELSE IF cfg.net_names = <<>> \/ cfg.net_names[1] \notin b.nets
    THEN Failure(StitchingResult, "no_fence_net", "No net found for fence vias")
    ELSE fence_tracks(b, cfg, IF selected_tracks = <<>> THEN b.tracks ELSE selected_tracks,
                      cfg.net_names[1])

\* generate_trace_fencing giving the vias the last configured net.
generate_trace_fencing_LastNet(b, cfg, selected_tracks) ==
    IF net_objects(b, cfg) = {}
    THEN Failure(StitchingResult, "no_nets", "No matching nets found for fence vias")
    ELSE IF cfg.net_names = <<>> \/ cfg.net_names[1] \notin b.nets
    THEN Failure(StitchingResult, "no_fence_net", "No net found for fence vias")
    ELSE IF selected_tracks = <<>>
    THEN Failure(StitchingResult, "no_tracks", "No tracks selected. Select the traces you want to fence in KiCad first.")
    ELSE fence_tracks(b, cfg, selected_tracks, cfg.net_names[Len(cfg.net_names)])

generate_trace_fencing(b, cfg, selected_tracks) ==
    IF net_objects(b, cfg) = {}
    THEN Failure(StitchingResult, "no_nets", "No matching nets found for fence vias")
    ELSE IF cfg.net_names = <<>> \/ cfg.net_names[1] \notin b.nets
    THEN Failure(StitchingResult, "no_fence_net", "No net found for fence vias")
    ELSE IF selected_tracks = <<>>
    THEN Failure(StitchingResult, "no_tracks", "No tracks selected. Select the traces you want to fence in KiCad first.")
    ELSE fence_tracks(b, cfg, selected_tracks, cfg.net_names[1])

\* generate_via_stitching in trace mode: the whole of generate_trace_fencing.
TraceFencing ==
    /\ pc = "start"
    /\ config.mode = "fence_trace"
    /\ result' = generate_trace_fencing(board, config, selection.tracks)
    /\ pc' = "done"
    /\ UNCHANGED <<board, config, selection, work, chk, dialog>>

\* ResolveZones entering the zone loop without zones instead of failing.
ResolveZones_NoZonesUnreported ==
    /\ pc = "start"
    /\ config.mode # "fence_trace"
    /\ IF net_objects(board, config) = {}
       THEN /\ result' = Failure(result, "no_nets", "No matching nets found")
            /\ pc' = "done"
            /\ work' = work
       ELSE /\ result' = [result EXCEPT
                             !.zones_found = Len(target_zones(board, config, selection))]
            /\ pc' = "zones"
            /\ work' = zone_work(board, config, selection)
    /\ UNCHANGED <<board, config, selection, chk, dialog>>

\* generate_via_stitching up to the zone loop: the nets and zones are
\* resolved, and the run ends here when there are none.
ResolveZones ==
    /\ pc = "start"
    /\ config.mode # "fence_trace"
    /\ IF net_objects(board, config) = {}
       THEN /\ result' = Failure(result, "no_nets", "No matching nets found")
            /\ pc' = "done"
            /\ work' = work
       ELSE IF target_zones(board, config, selection) = <<>>
       THEN /\ result' = Failure(result, "no_zones", "No zones found for target nets")
            /\ pc' = "done"
            /\ work' = work
       ELSE /\ result' = [result EXCEPT
                             !.zones_found = Len(target_zones(board, config, selection))]
            /\ pc' = "zones"
            /\ work' = zone_work(board, config, selection)
    /\ UNCHANGED <<board, config, selection, chk, dialog>>

\* The random draws the grid of one polygon can get.
PolygonJitters(polygon_pts, cfg) ==
    LET all_x == [i \in 1..Len(polygon_pts) |-> polygon_pts[i][1]]
        all_y == [i \in 1..Len(polygon_pts) |-> polygon_pts[i][2]]
    IN  JitterChoices(cfg, Len(GridLattice(SeqMin(all_x), SeqMin(all_y),
                                           SeqMax(all_x), SeqMax(all_y), cfg)))

\* The body of the polygon loop for one polygon and one outcome of the draws.
process_polygon(res, item, cfg, b, jitter) ==
    LET grid_positions == zone_positions(item.polygon_pts, cfg, jitter)
    IN  process_results([res EXCEPT !.candidates = @ + Len(grid_positions)],
                        check_positions_batch(grid_positions, cfg, b,
                                              cfg.mode = "fence_zone", item.polygon_pts),
                        item.net, cfg)

\* One iteration of the polygon loop: generate, count, check, record.
ProcessPolygon ==
    /\ pc = "zones"
    /\ work # <<>>
    /\ \E jitter \in PolygonJitters(Head(work).polygon_pts, config) :
          result' = process_polygon(result, Head(work), config, board, jitter)
    /\ work' = Tail(work)
    /\ UNCHANGED <<board, config, selection, pc, chk, dialog>>

\* ReturnResult placing the accepted vias on the board as it returns.
ReturnResult_PlacesVias ==
    /\ pc = "zones"
    /\ work = <<>>
    /\ pc' = "done"
    /\ board' = [board EXCEPT !.vias = @ \o result.vias]
    /\ UNCHANGED <<config, selection, work, result, chk, dialog>>

\* The zone loop is over: generate_via_stitching returns the result.
ReturnResult ==
    /\ pc = "zones"
    /\ work = <<>>
    /\ pc' = "done"
    /\ UNCHANGED <<board, config, selection, work, result, chk, dialog>>

(***************************************************************************)
(* Runs of generate_via_stitching.  Boards: a target-net zone alone on the  *)
(* board (a rectangle, an L shape, a triangle); several zones, one with      *)
(* filled polygons, one of another net, one without any polygon; the         *)
(* crowded board; a board with an outline, a via and three straight tracks   *)
(* to fence; the same without the target net; the empty board; a board      *)
(* whose zones are of another net or of none.                               *)
(***************************************************************************)
RunRectangle == <<<<0, 0>>, <<1200, 0>>, <<1200, 1000>>, <<0, 1000>>>>

RunEll == <<<<0, 0>>, <<1200, 0>>, <<1200, 400>>, <<600, 400>>, <<600, 1000>>, <<0, 1000>>>>

RunTriangle == <<<<0, 0>>, <<1000, 0>>, <<0, 800>>>>

ZoneOnlyBoards ==
    {[EmptyBoard EXCEPT !.zones = <<ZoneOf("GND", <<>>, sh)>>] :
        sh \in {RunRectangle, RunEll, RunTriangle}}
    \cup
    {[EmptyBoard EXCEPT !.zones = <<ZoneOf("GND", <<RunTriangle, <<>>, RunEll>>, RunRectangle),
                                   ZoneOf("SIG", <<>>, RunRectangle),
                                   ZoneOf("GND", <<>>, RunRectangle),
                                   ZoneOf("GND", <<>>, <<>>)>>]}

StraightTrack(sx, sy, ex, ey) ==
    TrackOf([sx |-> sx, sy |-> sy, ex |-> ex, ey |-> ey, is_arc |-> FALSE, mx |-> 0, my |-> 0],
            100, "SIG", "BL_F_Cu")

FencedBoard ==
    [EmptyBoard EXCEPT
        !.outline = RunRectangle,
        !.tracks  = <<StraightTrack(600, 500, 1000, 500), StraightTrack(200, 500, 600, 500),
                      StraightTrack(100, 200, 100, 800)>>,
        !.vias    = <<[x |-> 400, y |-> 750, diameter |-> 200, net |-> "GND"]>>,
        !.zones   = <<ZoneOf("GND", <<>>,
                             <<<<200, 200>>, <<1000, 200>>, <<1000, 800>>, <<200, 800>>>>)>>]

RunBoards ==
    ZoneOnlyBoards
        \cup {CrowdedBoard, FencedBoard, [FencedBoard EXCEPT !.nets = {"SIG"}], EmptyBoard,
              [EmptyBoard EXCEPT !.zones = <<ZoneOf("SIG", <<>>, RunRectangle),
                                             ZoneOf("", <<>>, RunTriangle)>>]}

\* What the caller can have selected on a board: nothing, one zone, every
\* zone; nothing, the first straight track, every straight track.
Selections(b) ==
    LET straight == SelectSeq(b.tracks, LAMBDA t : ~t.is_arc /\ (t.sx = t.ex \/ t.sy = t.ey))
    IN  {[zones |-> zs, tracks |-> ts] :
            zs \in {<<>>, b.zones} \cup {<<b.zones[i]>> : i \in 1..Len(b.zones)},
            ts \in {<<>>, straight} \cup {<<straight[i]>> : i \in 1..Len(straight)}}

RunNetNames == {<<"GND">>, <<"VCC">>, <<"VCC", "GND">>, <<"GND", "SIG">>, <<>>}

FillConfigs ==
    {[DefaultConfig EXCEPT !.mode = "fill", !.via_diameter_nm = 200, !.net_names = nn,
                           !.selected_only = so, !.stagger_rows = st, !.grid_spacing_nm = gs,
                           !.boundary_clearance_nm = bc] :
        nn \in RunNetNames, so \in BOOLEAN, st \in BOOLEAN, gs \in {500, 600},
        bc \in {100, 101, 400}}

\* Random offsets of at most one unit on a grid of four points a polygon.
JitterConfigs ==
    {[DefaultConfig EXCEPT !.mode = "fill", !.via_diameter_nm = 200, !.stagger_rows = FALSE,
                           !.grid_spacing_nm = 700, !.boundary_clearance_nm = 100,
                           !.random_offset = TRUE, !.random_offset_max_nm = 1]}

FenceZoneConfigs ==
    {[DefaultConfig EXCEPT !.mode = "fence_zone", !.via_diameter_nm = 200, !.net_names = nn,
                           !.selected_only = so, !.fence_spacing_nm = fs, !.clearance_nm = c,
                           !.boundary_clearance_nm = 100] :
        nn \in RunNetNames, so \in BOOLEAN, fs \in {300, 1000, 1300}, c \in {50, 200}}

FenceTraceConfigs ==
    {[DefaultConfig EXCEPT !.mode = "fence_trace", !.via_diameter_nm = 200, !.net_names = nn,
                           !.fence_both_sides = fb, !.fence_spacing_nm = fs,
                           !.fence_offset_nm = fo, !.clearance_nm = c,
                           !.boundary_clearance_nm = 100] :
        nn \in RunNetNames, fb \in BOOLEAN, fs \in {300, 1000}, fo \in {200, 500},
        c \in {50, 200}}

RunConfigs == FillConfigs \cup JitterConfigs \cup FenceZoneConfigs \cup FenceTraceConfigs

InitRun ==
    /\ board \in RunBoards
    /\ config \in RunConfigs
    /\ selection \in Selections(board)
    /\ pc = "start"
    /\ work = <<>>
    /\ result = StitchingResult
    /\ chk = NoCheck
    /\ dialog = NoDialog

NextRun == TraceFencing \/ ResolveZones \/ ProcessPolygon \/ ReturnResult

SpecRun == InitRun /\ [][NextRun]_vars

(***************************************************************************)
(* What the claims speak of.                                               *)
(***************************************************************************)
\* The board holds one via and nothing else.
OnlyOneVia ==
    /\ Len(board.vias) = 1
    /\ board.pads = <<>> /\ board.tracks = <<>> /\ board.zones = <<>> /\ board.outline = <<>>

TargetNets == Range(config.net_names)

\* The squared distance of the checked candidate from the centre of via v.
CentreDistSq(v) == (chk.x - v.x) * (chk.x - v.x) + (chk.y - v.y) * (chk.y - v.y)

\* C1: on a board with one via, of any radius and of a net that is no target
\* net, and no outline, a candidate at exactly via_radius + existing_radius +
\* clearance from the via's centre is accepted and every closer candidate is
\* rejected with reason via.
C1_ViaThreshold ==
    (chk.called /\ OnlyOneVia /\ board.vias[1].net \notin TargetNets) =>
        LET v        == board.vias[1]
            min_dist == via_radius_of(config) + FloorDiv(v.diameter, 2) + config.clearance_nm
        IN  /\ CentreDistSq(v) = min_dist * min_dist => chk.res = Accepted
            /\ CentreDistSq(v) < min_dist * min_dist => chk.res = Rejected("via")

BoardData == extract_board_data(board)

\* C2: no accepted candidate is closer to a straight track on an active or
\* unknown copper layer than via_radius + width // 2 + required clearance (the
\* same-net constant for a track of a target net, the copper clearance
\* otherwise), measured by the squared point-to-segment distance, whatever the
\* track's width.
C2_TrackClearance ==
    (chk.called /\ chk.res.valid) =>
        \A i \in 1..Len(BoardData.tracks) :
            LET t        == BoardData.tracks[i]
                req      == IF t.net \in TargetNets THEN SameNetClearance
                                                    ELSE config.clearance_nm
                min_dist == via_radius_of(config) + FloorDiv(t.width, 2) + req
            IN  (~t.is_arc /\ (t.layer \in BoardData.copper_layers \/ LayerIsUnknown(t.layer))) =>
                    point_to_segment_distance_sq(chk.x, chk.y, t.sx, t.sy, t.ex, t.ey)
                        >= min_dist * min_dist

\* The clearance the pad rule asks of a pad: half the copper clearance for a
\* pad of a target net with both half-extents at most 2.5mm, the full
\* clearance otherwise.
PadRuleClearance(pad) ==
    IF pad.net \in TargetNets /\ pad.half_w <= MountingHoleHalf /\ pad.half_h <= MountingHoleHalf
    THEN config.clearance_nm \div 2
    ELSE config.clearance_nm

PadRuleOverlap(pad, rc) ==
    /\ Abs(chk.x - pad.x) < via_radius_of(config) + pad.half_w + rc
    /\ Abs(chk.y - pad.y) < via_radius_of(config) + pad.half_h + rc

\* C3: unless an earlier check (board containment, board edge, zone edge)
\* rejects, a candidate is rejected with reason pad exactly when some pad
\* overlaps it on both axes within via_radius + half-extent + the pad rule's
\* clearance; the quick filter never changes the decision.
C3_PadRule ==
    (chk.called /\ chk.res.reason \notin {"outside_board", "board_edge", "zone_edge"}) =>
        (chk.res = Rejected("pad")
            <=> \E i \in 1..Len(BoardData.pads) :
                    PadRuleOverlap(BoardData.pads[i], PadRuleClearance(BoardData.pads[i])))

\* A candidate rejected for a large pad of a target net that half the
\* clearance would have let pass.
C3_Witness ==
    /\ chk.called
    /\ chk.res = Rejected("pad")
    /\ \A i \in 1..Len(BoardData.pads) :
          /\ BoardData.pads[i].net \in TargetNets
          /\ BoardData.pads[i].half_w > MountingHoleHalf
          /\ ~PadRuleOverlap(BoardData.pads[i], config.clearance_nm \div 2)

\* C4: with a board outline, every accepted candidate is inside the outline and
\* at least boundary_clearance + via_radius from its nearest edge; without an
\* outline no candidate is rejected with outside_board or board_edge.
C4_BoardOutline ==
    chk.called =>
        /\ (board.outline # <<>> /\ chk.res.valid) =>
              /\ point_in_polygon(chk.x, chk.y, board.outline)
              /\ ~EdgeCloserThan(chk.x, chk.y, board.outline,
                                 config.boundary_clearance_nm + via_radius_of(config))
        /\ board.outline = <<>> => chk.res.reason \notin {"outside_board", "board_edge"}

\* A candidate accepted at exactly boundary_clearance + via_radius from the edge.
C4_Witness ==
    /\ chk.called
    /\ board.outline # <<>>
    /\ chk.res.valid
    /\ EdgeCloserThan(chk.x, chk.y, board.outline,
                      config.boundary_clearance_nm + via_radius_of(config) + 1)

\* A zone polygon with no net, of at least min_pts points, holds the candidate
\* or has an edge closer to it than via_radius.
InRuleArea(min_pts) ==
    \E i \in 1..Len(BoardData.zone_polygons) :
        LET z == BoardData.zone_polygons[i]
        IN  /\ z.net = ""
            /\ Len(z.pts) >= min_pts
            /\ \/ point_in_polygon(chk.x, chk.y, z.pts)
               \/ EdgeCloserThan(chk.x, chk.y, z.pts, via_radius_of(config))

PassesChecksBeforeRuleArea ==
    chk.res.reason \notin {"outside_board", "board_edge", "zone_edge", "pad", "via", "track", "arc"}

\* C5 as stated: no accepted candidate is inside a zone polygon with no net or
\* within via_radius of its boundary, and a candidate that passes the earlier
\* checks and is inside or that close is rejected with reason rule_area.
C5_RuleAreaAnyPolygon ==
    chk.called =>
        /\ chk.res.valid => ~InRuleArea(1)
        /\ (PassesChecksBeforeRuleArea /\ InRuleArea(1)) => chk.res = Rejected("rule_area")

\* C5 amended: the same, for the zone polygons with no net that have three or
\* more points.
C5_RuleArea ==
    chk.called =>
        /\ chk.res.valid => ~InRuleArea(3)
        /\ (PassesChecksBeforeRuleArea /\ InRuleArea(3)) => chk.res = Rejected("rule_area")

\* A candidate outside a rule area, within via_radius of its edge, rejected.
C5_Witness ==
    /\ chk.called
    /\ chk.res = Rejected("rule_area")
    /\ \A i \in 1..Len(BoardData.zone_polygons) :
          ~point_in_polygon(chk.x, chk.y, BoardData.zone_polygons[i].pts)

\* The checks of the validator, in the order of the claim, each as the code
\* makes it for the checked candidate.
FailsOutside == OutsideBoard(chk.x, chk.y, BoardData.board_outline)

FailsBoardEdge ==
    BoardEdgeRejects(chk.x, chk.y, via_radius_of(config), config.boundary_clearance_nm,
                     BoardData.board_outline)

FailsZoneEdge ==
    ZoneEdgeRejects(chk.x, chk.y, via_radius_of(config), config.boundary_clearance_nm,
                    chk.is_fence_mode, chk.polygon_pts)

FailsPad ==
    \E i \in 1..Len(BoardData.pads) :
        PadRejects(chk.x, chk.y, via_radius_of(config), TargetNets, config.clearance_nm,
                   BoardData.pads[i])

FailsVia ==
    \E i \in 1..Len(BoardData.vias) :
        ViaRejects(chk.x, chk.y, via_radius_of(config), TargetNets, config.clearance_nm,
                   SameNetClearance, BoardData.vias[i])

FailingTracks ==
    {i \in 1..Len(BoardData.tracks) :
        TrackRejects(chk.x, chk.y, via_radius_of(config), TargetNets, config.clearance_nm,
                     SameNetClearance, BoardData.copper_layers, BoardData.tracks[i])}

FailsRuleArea ==
    \E i \in 1..Len(BoardData.zone_polygons) :
        RuleAreaRejects(chk.x, chk.y, via_radius_of(config), BoardData.zone_polygons[i])

\* C8: the reported reason is that of the first failing check in the order
\* outside_board, board_edge, zone_edge, pad, via, track/arc (the first failing
\* track or arc of the list), rule_area; zone_edge is never reported in fence
\* mode or without a containing polygon; a candidate is accepted exactly when
\* no check fails.
C8_ReasonPriority ==
    chk.called =>
        /\ chk.res.reason = "outside_board" <=> FailsOutside
        /\ chk.res.reason = "board_edge" <=> (~FailsOutside /\ FailsBoardEdge)
        /\ chk.res.reason = "zone_edge"
              <=> (~FailsOutside /\ ~FailsBoardEdge /\ FailsZoneEdge)
        /\ chk.res.reason = "pad"
              <=> (~FailsOutside /\ ~FailsBoardEdge /\ ~FailsZoneEdge /\ FailsPad)
        /\ chk.res.reason = "via"
              <=> (~FailsOutside /\ ~FailsBoardEdge /\ ~FailsZoneEdge /\ ~FailsPad /\ FailsVia)
        /\ chk.res.reason \in {"track", "arc"}
              <=> (~FailsOutside /\ ~FailsBoardEdge /\ ~FailsZoneEdge /\ ~FailsPad /\ ~FailsVia
                   /\ FailingTracks # {})
        /\ chk.res.reason \in {"track", "arc"} =>
              \E i \in FailingTracks :
                  /\ \A k \in FailingTracks : i <= k
                  /\ chk.res.reason = (IF BoardData.tracks[i].is_arc THEN "arc" ELSE "track")
        /\ chk.res.reason = "rule_area"
              <=> (~FailsOutside /\ ~FailsBoardEdge /\ ~FailsZoneEdge /\ ~FailsPad /\ ~FailsVia
                   /\ FailingTracks = {} /\ FailsRuleArea)
        /\ chk.res.valid
              <=> (~FailsOutside /\ ~FailsBoardEdge /\ ~FailsZoneEdge /\ ~FailsPad /\ ~FailsVia
                   /\ FailingTracks = {} /\ ~FailsRuleArea)
        /\ chk.res.valid <=> chk.res.reason = ""
        /\ (chk.is_fence_mode \/ chk.polygon_pts = <<>>) => chk.res.reason # "zone_edge"

\* A candidate too close to a pad and to a via at once, reported as pad.
C8_Witness ==
    /\ chk.called
    /\ FailsPad /\ FailsVia
    /\ chk.res = Rejected("pad")

\* C6: in every run, at the start, after each polygon and at return, failures
\* included, valid + rejected = candidates and the list of vias has valid
\* entries.
C6_ResultCounters ==
    /\ result.valid + result.rejected = result.candidates
    /\ Len(result.vias) = result.valid

\* A run between two polygons of its zone loop, with candidates accepted and
\* candidates rejected so far.
C6_Witness ==
    /\ pc = "zones"
    /\ work # <<>>
    /\ result.valid > 0
    /\ result.rejected > 0

RECURSIVE SumOfCounts(_, _)
SumOfCounts(reasons, keys) ==
    IF keys = {} THEN 0
    ELSE LET k == CHOOSE r \in keys : TRUE
         IN  reasons[k].count + SumOfCounts(reasons, keys \ {k})

\* C7: in every run, failures included, every value of rejected_reasons is a
\* count and the values add up to rejected.
C7_ReasonMap ==
    /\ \A r \in DOMAIN result.rejected_reasons : result.rejected_reasons[r].is_count
    /\ SumOfCounts(result.rejected_reasons, DOMAIN result.rejected_reasons) = result.rejected

\* Fill mode, no random offset, and nothing on the board but zones with a net.
FillOnEmptyBoard ==
    /\ config.mode = "fill"
    /\ ~config.random_offset
    /\ board.outline = <<>> /\ board.pads = <<>> /\ board.vias = <<>> /\ board.tracks = <<>>
    /\ \A i \in 1..Len(board.zones) : board.zones[i].net # ""

\* The polygons the zone loop has processed so far.
ProcessedWork ==
    LET all == zone_work(board, config, selection)
    IN  SubSeq(all, 1, Len(all) - Len(work))

\* The grid points of a polygon's bounding box that are inside the polygon
\* and at least boundary_clearance + via_radius from its nearest edge.
FarInside(polygon_pts) ==
    LET all_x == [i \in 1..Len(polygon_pts) |-> polygon_pts[i][1]]
        all_y == [i \in 1..Len(polygon_pts) |-> polygon_pts[i][2]]
        m     == config.boundary_clearance_nm + via_radius_of(config)
    IN  SelectSeq(GridLattice(SeqMin(all_x), SeqMin(all_y), SeqMax(all_x), SeqMax(all_y), config),
                  LAMBDA p : /\ point_in_polygon(p[1], p[2], polygon_pts)
                             /\ polygon_edge_distance_sq(p[1], p[2], polygon_pts) >= m * m)

\* C9: in fill mode on an otherwise empty board the accepted vias are, polygon
\* by polygon, the grid points inside the polygon and at least
\* boundary_clearance + via_radius from its edge, and valid is their number.
C9_FillAcceptsFarInside ==
    (pc \in {"zones", "done"} /\ FillOnEmptyBoard) =>
        LET expected == Flatten([k \in 1..Len(ProcessedWork) |->
                                    FarInside(ProcessedWork[k].polygon_pts)])
        IN  /\ [i \in 1..Len(result.vias) |-> <<result.vias[i].x, result.vias[i].y>>] = expected
            /\ result.valid = Len(expected)

\* A finished fill run on an otherwise empty board with a via exactly
\* boundary_clearance + via_radius from the zone edge and a rejected grid point.
C9_Witness ==
    /\ pc = "done"
    /\ FillOnEmptyBoard
    /\ result.rejected > 0
    /\ \E i \in 1..Len(result.vias), k \in 1..Len(ProcessedWork) :
          LET m == config.boundary_clearance_nm + via_radius_of(config)
          IN  polygon_edge_distance_sq(result.vias[i].x, result.vias[i].y,
                                       ProcessedWork[k].polygon_pts) = m * m

\* The board with its zones that have a net replaced by the zones zs, put
\* before or after the zones without a net.
WithCopperZones(b, zs, in_front) ==
    LET rule_areas == SelectSeq(b.zones, LAMBDA z : z.net = "")
    IN  [b EXCEPT !.zones = IF in_front THEN zs \o rule_areas ELSE rule_areas \o zs]

\* Zones with a net to put on a board: none, a square of the target net, a
\* triangle and a two-point outline of another net, the square as filled
\* polygon.
CopperZoneVariants ==
    {<<>>,
     <<ZoneOf("GND", <<>>, <<<<0, 0>>, <<1000, 0>>, <<1000, 800>>, <<0, 800>>>>)>>,
     <<ZoneOf("SIG", <<>>, <<<<0, 0>>, <<1000, 0>>, <<0, 800>>>>),
       ZoneOf("SIG", <<>>, <<<<0, 0>>, <<1000, 0>>>>)>>,
     <<ZoneOf("SIG", <<<<<<-500, -500>>, <<500, -500>>, <<500, 500>>, <<-500, 500>>>>>>, <<>>)>>}

\* C11: the decision and the reason for a candidate are the same on every
\* board that differs from this one only in its zone polygons with a net.
C11_CopperZonesSoft ==
    chk.called =>
        \A zs \in CopperZoneVariants, in_front \in BOOLEAN :
            CheckOne(chk.x, chk.y, config, WithCopperZones(board, zs, in_front),
                     chk.is_fence_mode, chk.polygon_pts) = chk.res

\* A candidate accepted inside the polygon of a zone with a net.
C11_Witness ==
    /\ chk.called
    /\ chk.res.valid
    /\ \E i \in 1..Len(BoardData.zone_polygons) :
          /\ BoardData.zone_polygons[i].net # ""
          /\ point_in_polygon(chk.x, chk.y, BoardData.zone_polygons[i].pts)

\* C12: what a trace-fencing run without selected tracks returns has
\* tracks_found, candidates and valid at 0, no via, and a reason map that is
\* not empty, whatever tracks the board has.
C12_NoTracksSelected ==
    (pc = "done" /\ config.mode = "fence_trace" /\ selection.tracks = <<>>) =>
          /\ result.tracks_found = 0
          /\ result.candidates = 0
          /\ result.valid = 0
          /\ result.vias = <<>>
          /\ DOMAIN result.rejected_reasons # {}

\* A trace-fencing run that ended with no_tracks on a board that has tracks
\* and the fence net.
C12_Witness ==
    /\ pc = "done"
    /\ config.mode = "fence_trace"
    /\ selection.tracks = <<>>
    /\ board.tracks # <<>>
    /\ "no_tracks" \in DOMAIN result.rejected_reasons

\* The polygon of a work item comes from a selected zone on a target net.
FromSelectedZone(item) ==
    \E i \in 1..Len(selection.zones) :
        LET z == selection.zones[i]
        IN  /\ z.net \in TargetNets
            /\ z.net = item.net
            /\ item.polygon_pts \in Range(get_zone_filled_polygons(z))

NoNetOnBoard == TargetNets \cap board.nets = {}

\* A zone mode, and no zone of the board is on a target net.
NoZoneMatches ==
    /\ config.mode # "fence_trace"
    /\ \A i \in 1..Len(board.zones) : board.zones[i].net \notin TargetNets

EmptyResult ==
    /\ result.candidates = 0 /\ result.valid = 0 /\ result.rejected = 0
    /\ result.vias = <<>>

\* C14: a run on a board without any configured net, or a zone-mode run on
\* a board without a zone on a target net, never enters candidate generation
\* or validation and returns zero counters, no via and the reason key
\* no_nets or no_fence_net, respectively no_zones.
C14_StructuredFailures ==
    /\ (NoNetOnBoard \/ NoZoneMatches) => (pc # "zones" /\ ~chk.called /\ EmptyResult)
    /\ (pc = "done" /\ NoNetOnBoard) =>
          DOMAIN result.rejected_reasons \cap {"no_nets", "no_fence_net"} # {}
    /\ (pc = "done" /\ ~NoNetOnBoard /\ NoZoneMatches) =>
          "no_zones" \in DOMAIN result.rejected_reasons

\* A zone-mode run that ended with no_zones on a board that has zones, none
\* of them on a target net.
C14_Witness ==
    /\ pc = "done"
    /\ ~NoNetOnBoard
    /\ NoZoneMatches
    /\ board.zones # <<>>
    /\ "no_zones" \in DOMAIN result.rejected_reasons

\* The run generated and validated the fence of the selected tracks.
FenceGenerated ==
    /\ DOMAIN result.rejected_reasons \cap {"no_nets", "no_fence_net", "no_tracks"} = {}
    /\ result.tracks_found = Len(selection.tracks)
    /\ result.candidates =
          Len(generate_path_fence_positions(selection.tracks, config.fence_spacing_nm,
                                            config.fence_offset_nm, config.fence_both_sides))
    /\ result.valid + result.rejected = result.candidates

ViasCarryFirstNet ==
    \A i \in 1..Len(result.vias) : result.vias[i].net = config.net_names[1]

FinishedTraceRun ==
    pc = "done" /\ config.mode = "fence_trace" /\ selection.tracks # <<>>

\* C15 as stated: a trace-fencing run with selected tracks generates and
\* validates candidates whenever some configured net is a net of the board,
\* and every via carries the first configured net.
C15_AnyNetOnBoard ==
    (FinishedTraceRun /\ ~NoNetOnBoard) => (FenceGenerated /\ ViasCarryFirstNet)

\* C15 amended: it does so whenever the first configured net is a net of the
\* board; when only a later configured net is, it ends with no_fence_net and
\* an empty result.
C15_FirstNetOnBoard ==
    /\ (FinishedTraceRun /\ config.net_names # <<>> /\ config.net_names[1] \in board.nets)
          => (FenceGenerated /\ ViasCarryFirstNet)
    /\ (FinishedTraceRun /\ ~NoNetOnBoard /\ config.net_names[1] \notin board.nets)
          => (EmptyResult /\ "no_fence_net" \in DOMAIN result.rejected_reasons)

\* A trace-fencing run with two configured nets on the board that accepted a
\* via.
C15_Witness ==
    /\ FinishedTraceRun
    /\ Len(config.net_names) > 1
    /\ Range(config.net_names) \subseteq board.nets
    /\ result.valid > 0

(***************************************************************************)
(* The chainer on its own: the selected tracks are up to MaxSegments        *)
(* straight tracks between five points, two of them closer to each other    *)
(* than the chaining tolerance, in every order and orientation: split       *)
(* paths, junctions, closed loops and duplicates.  work receives the        *)
(* polylines, each with the indices of the segments it consumed.            *)
(***************************************************************************)
MaxSegments == 3

ChainPoints == {<<0, 0>>, <<5, 0>>, <<100, 0>>, <<100, 100>>, <<0, 100>>}

ChainTracks ==
    {StraightTrack(p[1], p[2], q[1], q[2]) : <<p, q>> \in {pq \in ChainPoints \X ChainPoints :
                                                              pq[1] # pq[2]}}

ChainInputs == UNION {[1..n -> ChainTracks] : n \in 1..MaxSegments}

InitChain ==
    /\ board = EmptyBoard
    /\ config = [DefaultConfig EXCEPT !.mode = "fence_trace"]
    /\ selection \in {[NoSelection EXCEPT !.tracks = t] : t \in ChainInputs}
    /\ pc = "start"
    /\ work = <<>>
    /\ result = StitchingResult
    /\ chk = NoCheck
    /\ dialog = NoDialog

ChainSelectedTracks ==
    /\ pc = "start"
    /\ work' = chain_segments(track_segments(selection.tracks))
    /\ pc' = "done"
    /\ UNCHANGED <<board, config, selection, result, chk, dialog>>

SpecChain == InitChain /\ [][ChainSelectedTracks]_vars

(***************************************************************************)
(* The offset path on its own: work holds one polyline of up to             *)
(* MaxPathPoints points whose segments are horizontal, vertical or of no    *)
(* length (straight runs, corners, reversals, repeated points), the offset  *)
(* is the fence offset of the configuration, and result receives the side   *)
(* and the offset points.                                                   *)
(***************************************************************************)
MaxPathPoints == 3

OffsetPoints == {<<0, 0>>, <<500, 0>>, <<1000, 0>>, <<1000, 1000>>}

OffsetInputs ==
    {p \in UNION {[1..n -> OffsetPoints] : n \in 2..MaxPathPoints} :
        \A i \in 1..(Len(p) - 1) : p[i][1] = p[i + 1][1] \/ p[i][2] = p[i + 1][2]}

InitOffset ==
    /\ board = EmptyBoard
    /\ config \in {[DefaultConfig EXCEPT !.mode = "fence_trace", !.fence_offset_nm = o] :
                       o \in {100, 500}}
    /\ selection = NoSelection
    /\ pc = "start"
    /\ work \in {<<p>> : p \in OffsetInputs}
    /\ result = StitchingResult
    /\ chk = NoCheck
    /\ dialog = NoDialog

OffsetPath ==
    /\ pc = "start"
    /\ \E side \in {1, -1} :
           result' = [side |-> side,
                      offset_pts |-> generate_offset_path(work[1], config.fence_offset_nm, side)]
    /\ pc' = "done"
    /\ UNCHANGED <<board, config, selection, work, chk, dialog>>

SpecOffset == InitOffset /\ [][OffsetPath]_vars

(***************************************************************************)
(* The resampler on its own: work holds one path of up to MaxPathPoints     *)
(* points whose segments have integer lengths (horizontal, vertical, 3-4-5   *)
(* diagonals, none), the spacing is the fence spacing of the configuration, *)
(* and result receives the samples.                                          *)
(***************************************************************************)
SamplePoints == {<<0, 0>>, <<3, 0>>, <<3, 4>>, <<6, 8>>, <<6, 0>>}

SampleInputs ==
    {p \in UNION {[1..n -> SamplePoints] : n \in 2..MaxPathPoints} :
        \A i \in 1..(Len(p) - 1) :
            \E l \in 0..16 : l * l = (p[i + 1][1] - p[i][1]) * (p[i + 1][1] - p[i][1])
                                      + (p[i + 1][2] - p[i][2]) * (p[i + 1][2] - p[i][2])}

SampleSpacings == {1, 2, 3, 5, 7, 20}

InitSample ==
    /\ board = EmptyBoard
    /\ config \in {[DefaultConfig EXCEPT !.mode = "fence_trace", !.fence_spacing_nm = s] :
                       s \in SampleSpacings}
    /\ selection = NoSelection
    /\ pc = "start"
    /\ work \in {<<p>> : p \in SampleInputs}
    /\ result = StitchingResult
    /\ chk = NoCheck
    /\ dialog = NoDialog

SamplePath ==
    /\ pc = "start"
    /\ result' = [samples |-> sample_path_at_intervals(work[1], config.fence_spacing_nm)]
    /\ pc' = "done"
    /\ UNCHANGED <<board, config, selection, work, chk, dialog>>

SpecSample == InitSample /\ [][SamplePath]_vars

(***************************************************************************)
(* The perimeter fence on its own: work holds one polygon of two or three   *)
(* points, some of them negative or repeated, the spacing is the fence      *)
(* spacing of the configuration, and result receives the positions.         *)
(***************************************************************************)
FencePoints == {<<-7, -3>>, <<0, 0>>, <<10, 0>>, <<10, 4>>, <<3, 4>>}

FencePolygons == UNION {[1..n -> FencePoints] : n \in 2..MaxPathPoints}

FenceSpacings == {3, 5, 12}

InitFence ==
    /\ board = EmptyBoard
    /\ config \in {[DefaultConfig EXCEPT !.mode = "fence_zone", !.fence_spacing_nm = s] :
                       s \in FenceSpacings}
    /\ selection = NoSelection
    /\ pc = "start"
    /\ work \in {<<[polygon_pts |-> p, net |-> "GND"]>> : p \in FencePolygons}
    /\ result = StitchingResult
    /\ chk = NoCheck
    /\ dialog = NoDialog

FencePolygon ==
    /\ pc = "start"
    /\ result' = [positions |-> generate_fence_positions(work[1].polygon_pts,
                                                          config.fence_spacing_nm)]
    /\ pc' = "done"
    /\ UNCHANGED <<board, config, selection, work, chk, dialog>>

SpecFence == InitFence /\ [][FencePolygon]_vars

(***************************************************************************)
(* The grid generator on its own, without random offsets: work holds the    *)
(* bounding box as its two corners, at every position relative to the grid  *)
(* and on either side of the origin, the spacing and the stagger are those  *)
(* of the configuration, and result receives the positions.                 *)
(***************************************************************************)
GridOrigins == -4..4

GridWidths == 0..7

GridHeights == 0..4

GridBoxes ==
    {<<<<x, y>>, <<x + w, y + h>>>> :
        <<x, y, w, h>> \in GridOrigins \X GridOrigins \X GridWidths \X GridHeights}

InitGrid ==
    /\ board = EmptyBoard
    /\ config \in {[DefaultConfig EXCEPT !.mode = "fill", !.grid_spacing_nm = s,
                                          !.stagger_rows = st, !.random_offset = FALSE] :
                       <<s, st>> \in {3, 4} \X BOOLEAN}
    /\ selection = NoSelection
    /\ pc = "start"
    /\ work \in {<<[polygon_pts |-> box, net |-> "GND"]>> : box \in GridBoxes}
    /\ result = StitchingResult
    /\ chk = NoCheck
    /\ dialog = NoDialog

GridBox ==
    /\ pc = "start"
    /\ LET box == work[1].polygon_pts
       IN  \E jitter \in PolygonJitters(box, config) :
               result' = [positions |-> generate_grid_positions(box[1][1], box[1][2],
                                                                box[2][1], box[2][2],
                                                                config, jitter)]
    /\ pc' = "done"
    /\ UNCHANGED <<board, config, selection, work, chk, dialog>>

SpecGrid == InitGrid /\ [][GridBox]_vars

(***************************************************************************)
(* The point-in-polygon test on its own: work holds one simple polygon (a   *)
(* triangle, a sliver, a rectangle, a convex pentagon, an L, a C, at two    *)
(* scales, moved on either side of the origin, started at any vertex, in    *)
(* either orientation), and result receives the verdict for the mean of its *)
(* vertices.                                                                 *)
(***************************************************************************)
PolygonShapes ==
    {<<<<0, 0>>, <<3, 0>>, <<0, 3>>>>,
     <<<<0, 0>>, <<4, 0>>, <<4, 2>>, <<0, 2>>>>,
     <<<<0, 0>>, <<4, 0>>, <<6, 3>>, <<2, 6>>, <<-2, 3>>>>,
     <<<<3, -6>>, <<1, -3>>, <<5, 6>>>>,
     <<<<0, 0>>, <<6, 0>>, <<6, 2>>, <<2, 2>>, <<2, 6>>, <<0, 6>>>>,
     <<<<0, 0>>, <<3, 0>>, <<3, 1>>, <<1, 1>>, <<1, 2>>, <<3, 2>>, <<3, 3>>, <<0, 3>>>>}

\* The shape scaled by k, moved by d, started at vertex r, reversed or not.
Placed(shape, k, d, r, reversed) ==
    LET n     == Len(shape)
        moved == [i \in 1..n |-> <<k * shape[((i + r - 2) % n) + 1][1] + d[1],
                                   k * shape[((i + r - 2) % n) + 1][2] + d[2]>>]
    IN  IF reversed THEN Reverse(moved) ELSE moved

SimplePolygons ==
    UNION {{Placed(shape, k, d, r, reversed) : r \in 1..Len(shape)} :
              <<shape, k, d, reversed>> \in PolygonShapes \X {1, 10}
                                              \X {<<0, 0>>, <<-50, -20>>, <<7, 3>>}
                                              \X BOOLEAN}

RECURSIVE SumOf(_, _)
SumOf(polygon_pts, c) ==
    IF polygon_pts = <<>> THEN 0 ELSE Head(polygon_pts)[c] + SumOf(Tail(polygon_pts), c)

\* The mean of the vertices, as integer coordinates.
Centroid(polygon_pts) ==
    <<FloorDiv(SumOf(polygon_pts, 1), Len(polygon_pts)),
      FloorDiv(SumOf(polygon_pts, 2), Len(polygon_pts))>>

InitPolygon ==
    /\ board = EmptyBoard
    /\ config = DefaultConfig
    /\ selection = NoSelection
    /\ pc = "start"
    /\ work \in {<<[polygon_pts |-> p, net |-> "GND"]>> : p \in SimplePolygons}
    /\ result = StitchingResult
    /\ chk = NoCheck
    /\ dialog = NoDialog

TestCentroid ==
    /\ pc = "start"
    /\ LET c == Centroid(work[1].polygon_pts)
       IN  result' = [x |-> c[1], y |-> c[2],
                      inside |-> point_in_polygon(c[1], c[2], work[1].polygon_pts)]
    /\ pc' = "done"
    /\ UNCHANGED <<board, config, selection, work, chk, dialog>>

SpecPolygon == InitPolygon /\ [][TestCentroid]_vars

(***************************************************************************)
(* The point-to-segment distance on its own: chk holds the point, work the  *)
(* segment as its two end points (equal for a segment of no length), and    *)
(* result receives the value for the segment as given and for the segment   *)
(* with its end points exchanged.                                            *)
(***************************************************************************)
SegmentCoords == -2..3

InitSegment ==
    /\ board = EmptyBoard
    /\ config = DefaultConfig
    /\ selection = NoSelection
    /\ pc = "start"
    /\ work \in {<<[polygon_pts |-> <<<<x1, y1>>, <<x2, y2>>>>, net |-> "GND"]>> :
                     <<x1, y1, x2, y2>> \in SegmentCoords \X SegmentCoords
                                                \X SegmentCoords \X SegmentCoords}
    /\ result = StitchingResult
    /\ chk \in {[NoCheck EXCEPT !.x = px, !.y = py] : <<px, py>> \in SegmentCoords \X SegmentCoords}
    /\ dialog = NoDialog

MeasureSegment ==
    /\ pc = "start"
    /\ LET a == work[1].polygon_pts[1]
           b == work[1].polygon_pts[2]
       IN  result' = [forward  |-> point_to_segment_distance_sq(chk.x, chk.y, a[1], a[2], b[1], b[2]),
                      backward |-> point_to_segment_distance_sq(chk.x, chk.y, b[1], b[2], a[1], a[2])]
    /\ pc' = "done"
    /\ UNCHANGED <<board, config, selection, work, chk, dialog>>

SpecSegment == InitSegment /\ [][MeasureSegment]_vars

(***************************************************************************)
(* The loops of a run, one iteration a step: the double while-loop of       *)
(* generate_grid_positions, the for-loop over the segments of               *)
(* sample_path_at_intervals with its inner while-loop, and the for-loop of  *)
(* chain_tracks_into_paths with its while-changed loop (a pass of the       *)
(* innermost for-loop over the finite segment list is one step).  work      *)
(* holds the arguments and the local variables of the function, result      *)
(* receives what it returns.  The spacings are positive.                    *)
(***************************************************************************)
LoopBoxes == {box \in GridBoxes : box[1][1] \in {-4, 1} /\ box[1][2] \in {-3, 2}}

LoopSpacings == {2, 5, 20}

LoopPoints == {<<0, 0>>, <<5, 0>>, <<100, 0>>}

LoopSegments ==
    UNION {[1..n -> {<<p, q>> : <<p, q>> \in {pq \in LoopPoints \X LoopPoints : pq[1] # pq[2]}}] :
              n \in 1..MaxSegments}

LoopLocals ==
    [fn |-> "", box |-> <<>>, path |-> <<>>, segments |-> <<>>,
     start_x |-> 0, row |-> 0, x |-> 0, y |-> 0, positions |-> <<>>,
     i |-> 0, seg_len |-> 0, pos |-> 0, accumulated_dist |-> 0, samples |-> <<>>,
     used |-> {}, changed |-> FALSE, paths |-> <<>>]

InitLoops ==
    /\ board = EmptyBoard
    /\ selection = NoSelection
    /\ pc = "start"
    /\ result = StitchingResult
    /\ chk = NoCheck
    /\ dialog = NoDialog
    /\ \/ /\ config \in {[DefaultConfig EXCEPT !.mode = "fill", !.grid_spacing_nm = s,
                                               !.stagger_rows = st, !.random_offset = FALSE] :
                            <<s, st>> \in {3, 4} \X BOOLEAN}
          /\ work \in {[LoopLocals EXCEPT !.fn = "generate_grid_positions", !.box = box] :
                          box \in LoopBoxes}
       \/ /\ config \in {[DefaultConfig EXCEPT !.mode = "fence_trace", !.fence_spacing_nm = s] :
                            s \in LoopSpacings}
          /\ work \in {[LoopLocals EXCEPT !.fn = "sample_path_at_intervals", !.path = p] :
                          p \in SampleInputs \cup {<<>>, <<<<3, 4>>>>}}
       \/ /\ config = [DefaultConfig EXCEPT !.mode = "fence_trace"]
          /\ work \in {[LoopLocals EXCEPT !.fn = "chain_tracks_into_paths", !.segments = s] :
                          s \in LoopSegments}

\* generate_grid_positions up to its outer loop.
GridEnter ==
    /\ pc = "start"
    /\ work.fn = "generate_grid_positions"
    /\ LET spacing == config.grid_spacing_nm
       IN  work' = [work EXCEPT
                       !.start_x = FloorDiv(work.box[1][1] + spacing - 1, spacing) * spacing,
                       !.y = FloorDiv(work.box[1][2] + spacing - 1, spacing) * spacing,
                       !.row = 0]
    /\ pc' = "grid_rows"
    /\ UNCHANGED <<board, config, selection, result, chk, dialog>>

\* while y <= max_y: a row begins, or the function returns.
GridRows ==
    /\ pc = "grid_rows"
    /\ IF work.y <= work.box[2][2]
       THEN /\ work' = [work EXCEPT
                           !.x = work.start_x
                                   + (IF config.stagger_rows /\ work.row % 2 = 1
                                      THEN FloorDiv(config.grid_spacing_nm, 2) ELSE 0)]
            /\ pc' = "grid_cols"
            /\ result' = result
       ELSE /\ result' = [positions |-> work.positions]
            /\ pc' = "done"
            /\ work' = work
    /\ UNCHANGED <<board, config, selection, chk, dialog>>

\* while x <= max_x: a position is added and x advances, or the row ends and
\* y advances.
GridCols ==
    /\ pc = "grid_cols"
    /\ IF work.x <= work.box[2][1]
       THEN /\ work' = [work EXCEPT !.positions = Append(@, <<work.x, work.y>>),
                                    !.x = @ + config.grid_spacing_nm]
            /\ pc' = pc
       ELSE /\ work' = [work EXCEPT !.y = @ + config.grid_spacing_nm, !.row = @ + 1]
            /\ pc' = "grid_rows"
    /\ UNCHANGED <<board, config, selection, result, chk, dialog>>

\* sample_path_at_intervals up to its for-loop, or its early return.
SampleEnter ==
    /\ pc = "start"
    /\ work.fn = "sample_path_at_intervals"
    /\ IF Len(work.path) < 2
       THEN /\ result' = [samples |-> work.path]
            /\ pc' = "done"
            /\ work' = work
       ELSE /\ work' = [work EXCEPT !.samples = <<work.path[1]>>, !.accumulated_dist = 0,
                                    !.i = 2]
            /\ pc' = "sample_segs"
            /\ result' = result
    /\ UNCHANGED <<board, config, selection, chk, dialog>>

\* for i in range(1, len(path)): the next segment is skipped when it has no
\* length and walked otherwise; after the last one the final point is added
\* and the function returns.
SampleSegs ==
    /\ pc = "sample_segs"
    /\ IF work.i > Len(work.path)
       THEN /\ result' = [samples |->
                             IF work.samples[Len(work.samples)] # work.path[Len(work.path)]
                             THEN Append(work.samples, work.path[Len(work.path)])
                             ELSE work.samples]
            /\ pc' = "done"
            /\ work' = work
       ELSE LET seg_len == SegmentLength(work.path[work.i][1] - work.path[work.i - 1][1],
                                         work.path[work.i][2] - work.path[work.i - 1][2])
            IN  /\ result' = result
                /\ IF seg_len = 0
                   THEN /\ work' = [work EXCEPT !.i = @ + 1]
                        /\ pc' = pc
                   ELSE /\ work' = [work EXCEPT
                                       !.seg_len = seg_len,
                                       !.pos = config.fence_spacing_nm - work.accumulated_dist]
                        /\ pc' = "sample_walk"
    /\ UNCHANGED <<board, config, selection, chk, dialog>>

\* while pos <= seg_len: a sample is added and pos advances, or the segment
\* ends.
SampleWalk ==
    /\ pc = "sample_walk"
    /\ LET x1 == work.path[work.i - 1][1]
           y1 == work.path[work.i - 1][2]
           dx == work.path[work.i][1] - x1
           dy == work.path[work.i][2] - y1
       IN  IF work.pos <= work.seg_len
           THEN /\ work' = [work EXCEPT
                               !.samples = Append(@, <<TruncDiv(x1 * work.seg_len + work.pos * dx,
                                                                work.seg_len),
                                                       TruncDiv(y1 * work.seg_len + work.pos * dy,
                                                                work.seg_len)>>),
                               !.pos = @ + config.fence_spacing_nm]
                /\ pc' = pc
           ELSE /\ work' = [work EXCEPT
                               !.accumulated_dist = (@ + work.seg_len) % config.fence_spacing_nm,
                               !.i = @ + 1]
                /\ pc' = "sample_segs"
    /\ UNCHANGED <<board, config, selection, result, chk, dialog>>

\* chain_tracks_into_paths from the segment list to its outer loop.
ChainEnter ==
    /\ pc = "start"
    /\ work.fn = "chain_tracks_into_paths"
    /\ work' = [work EXCEPT !.paths = <<>>, !.used = {}, !.i = 1]
    /\ pc' = "chain_segs"
    /\ UNCHANGED <<board, config, selection, result, chk, dialog>>

\* for i, seg in enumerate(segments): a used segment is passed over, an
\* unused one starts a path; after the last one the function returns.
ChainSegs ==
    /\ pc = "chain_segs"
    /\ IF work.i > Len(work.segments)
       THEN /\ result' = [paths |-> work.paths]
            /\ pc' = "done"
            /\ work' = work
       ELSE /\ result' = result
            /\ IF work.i \in work.used
               THEN /\ work' = [work EXCEPT !.i = @ + 1]
                    /\ pc' = pc
               ELSE /\ work' = [work EXCEPT !.path = work.segments[work.i],
                                            !.used = @ \cup {work.i},
                                            !.changed = TRUE]
                    /\ pc' = "chain_while"
    /\ UNCHANGED <<board, config, selection, chk, dialog>>

\* The while-changed loop never clearing its flag.
ChainWhile_KeepsChanged ==
    /\ pc = "chain_while"
    /\ IF work.changed
       THEN /\ LET st == ExtendPass([path |-> work.path, used |-> work.used,
                                     changed |-> work.changed], work.segments, 1)
               IN  work' = [work EXCEPT !.path = st.path, !.used = st.used,
                                        !.changed = st.changed]
            /\ pc' = pc
       ELSE /\ work' = [work EXCEPT !.paths = Append(@, work.path), !.i = @ + 1]
            /\ pc' = "chain_segs"
    /\ UNCHANGED <<board, config, selection, result, chk, dialog>>

\* while changed: the flag is cleared and one pass over the segments is
\* made; when the last pass merged nothing the path is complete.
ChainWhile ==
    /\ pc = "chain_while"
    /\ IF work.changed
       THEN /\ LET st == ExtendPass([path |-> work.path, used |-> work.used,
                                     changed |-> FALSE], work.segments, 1)
               IN  work' = [work EXCEPT !.path = st.path, !.used = st.used,
                                        !.changed = st.changed]
            /\ pc' = pc
       ELSE /\ work' = [work EXCEPT !.paths = Append(@, work.path), !.i = @ + 1]
            /\ pc' = "chain_segs"
    /\ UNCHANGED <<board, config, selection, result, chk, dialog>>

NextLoops ==
    \/ GridEnter
    \/ GridRows
    \/ GridCols
    \/ SampleEnter
    \/ SampleSegs
    \/ SampleWalk
    \/ ChainEnter
    \/ ChainSegs
    \/ ChainWhile

SpecLoops == InitLoops /\ [][NextLoops]_vars

\* The scheduling of a run: it is one synchronous call, so a loop that can
\* make its next iteration makes it.
LiveLoops == SpecLoops /\ WF_vars(NextLoops)

(***************************************************************************)
(* The dialog around the run.  The widgets show a configuration            *)
(* (dialog.shown) and the dialog keeps the result of the last preview that  *)
(* returned (dialog.result, self.result in the code).  A preview reads the  *)
(* configuration from the widgets and runs generate_via_stitching with it   *)
(* (the actions of NextRun, from pc = "start" to pc = "done"); when the run *)
(* returns, its result becomes self.result; when it raises, self.result     *)
(* stays what it was.  The run yields to the user interface between its     *)
(* steps, so the handlers of the dialog also run while pc is "start" or     *)
(* "zones"; a preview started from such a handler runs inside the yield,    *)
(* to its return or to an exception, before the outer one goes on.  Apply   *)
(* places the vias of self.result and closes the dialog.  Delete-existing   *)
(* removes the vias of the shown net whose diameter is within 0.01 mm of    *)
(* the shown one, once the user has confirmed, and runs a preview.  The     *)
(* vias of the modelled boards carry no drill: all are taken to have the    *)
(* configured drill, so the drill test of find_stitching_vias passes.       *)
(***************************************************************************)
MatchTolerance == 10

find_stitching_vias(b, net_names, via_diameter_nm) ==
    SelectSeq(b.vias, LAMBDA v : /\ v.net \in Range(net_names)
                                 /\ Abs(v.diameter - via_diameter_nm) < MatchTolerance)

\* The polygon loop of generate_via_stitching, for a configuration without
\* random offset (the draws then leave one outcome).
RECURSIVE process_polygons(_, _, _, _)
process_polygons(res, items, cfg, b) ==
    IF items = <<>>
    THEN res
    ELSE process_polygons(
             process_polygon(res, Head(items), cfg, b,
                             CHOOSE jitter \in PolygonJitters(Head(items).polygon_pts, cfg) : TRUE),
             Tail(items), cfg, b)

\* What generate_via_stitching returns, as one value.
generate_via_stitching(b, cfg, sel) ==
    IF cfg.mode = "fence_trace"
    THEN generate_trace_fencing(b, cfg, sel.tracks)
    ELSE IF net_objects(b, cfg) = {}
    THEN Failure(StitchingResult, "no_nets", "No matching nets found")
    ELSE IF target_zones(b, cfg, sel) = <<>>
    THEN Failure(StitchingResult, "no_zones", "No zones found for target nets")
    ELSE process_polygons([StitchingResult EXCEPT !.zones_found = Len(target_zones(b, cfg, sel))],
                          zone_work(b, cfg, sel), cfg, b)

\* The configurations the widgets can show: filling the zones of a net of
\* the board or of a net it does not have, on two grids; fencing the
\* selected tracks on one side or on both.
DialogConfigs ==
    {c \in FillConfigs : /\ c.net_names \in {<<"GND">>, <<"VCC">>}
                         /\ ~c.selected_only
                         /\ ~c.stagger_rows
                         /\ c.boundary_clearance_nm = 100}
    \cup
    {c \in FenceTraceConfigs : /\ c.net_names = <<"GND">>
                               /\ c.fence_spacing_nm = 300
                               /\ c.fence_offset_nm = 200
                               /\ c.clearance_nm = 50}

DialogBoards == {FencedBoard, [EmptyBoard EXCEPT !.zones = <<ZoneOf("GND", <<>>, RunRectangle)>>]}

InitApp ==
    /\ board \in DialogBoards
    /\ selection \in Selections(board)
    /\ config \in DialogConfigs
    /\ dialog = DialogOf(config)
    /\ pc = "idle"
    /\ work = <<>>
    /\ result = StitchingResult
    /\ chk = NoCheck

\* on_preview from its call to the call of generate_via_stitching: the
\* configuration is read from the widgets and the run starts.
StartPreview(shown) ==
    /\ config' = shown
    /\ pc' = "start"
    /\ work' = <<>>
    /\ result' = StitchingResult

\* A handler called while a preview runs starts a preview of its own: that
\* one returns, and its result becomes self.result, or raises.
NestedPreview(shown) ==
    /\ \/ dialog' = [dialog EXCEPT !.shown = shown, !.auto_preview = TRUE,
                                   !.result = generate_via_stitching(board, shown, selection)]
       \/ dialog' = [dialog EXCEPT !.shown = shown, !.auto_preview = TRUE]
    /\ UNCHANGED <<config, pc, work, result>>

\* The Preview button.
on_preview ==
    /\ pc = "idle"
    /\ StartPreview(dialog.shown)
    /\ UNCHANGED <<board, selection, chk, dialog>>

\* on_preview after generate_via_stitching has returned.
on_preview_return ==
    /\ pc = "done"
    /\ dialog' = [dialog EXCEPT !.result = result]
    /\ pc' = "idle"
    /\ UNCHANGED <<board, config, selection, work, result, chk>>

\* on_preview when generate_via_stitching raises: the exception is caught
\* and reported, and self.result is not assigned.
on_preview_except ==
    /\ pc \in {"start", "zones"}
    /\ pc' = "idle"
    /\ UNCHANGED <<board, config, selection, work, result, chk, dialog>>

\* A widget changes the configuration shown; with auto-preview ticked a
\* preview follows.
on_param_change ==
    /\ pc \in {"idle", "start", "zones"}
    /\ \E shown \in DialogConfigs \ {dialog.shown} :
          IF ~dialog.auto_preview
          THEN /\ dialog' = [dialog EXCEPT !.shown = shown]
               /\ UNCHANGED <<config, pc, work, result>>
          ELSE IF pc = "idle"
          THEN /\ dialog' = [dialog EXCEPT !.shown = shown]
               /\ StartPreview(shown)
          ELSE NestedPreview(shown)
    /\ UNCHANGED <<board, selection, chk>>

\* The auto-preview box: ticking it runs a preview.
on_auto_preview_toggle ==
    /\ pc \in {"idle", "start", "zones"}
    /\ IF dialog.auto_preview
       THEN /\ dialog' = [dialog EXCEPT !.auto_preview = FALSE]
            /\ UNCHANGED <<config, pc, work, result>>
       ELSE IF pc = "idle"
       THEN /\ dialog' = [dialog EXCEPT !.auto_preview = TRUE]
            /\ StartPreview(dialog.shown)
       ELSE NestedPreview(dialog.shown)
    /\ UNCHANGED <<board, selection, chk>>

on_apply ==
    /\ pc \in {"idle", "start", "zones"}
    /\ dialog.result.vias # <<>>
    /\ board' = [board EXCEPT !.vias = @ \o dialog.result.vias]
    /\ pc' = "closed"
    /\ UNCHANGED <<config, selection, work, result, chk, dialog>>

on_delete_existing ==
    /\ pc = "idle"
    /\ LET matching_vias == find_stitching_vias(board, <<dialog.shown.net_names[1]>>,
                                                dialog.shown.via_diameter_nm)
       IN  /\ matching_vias # <<>>
           /\ board' = [board EXCEPT
                            !.vias = SelectSeq(@, LAMBDA v : v \notin Range(matching_vias))]
    /\ StartPreview(dialog.shown)
    /\ UNCHANGED <<selection, chk, dialog>>

NextApp ==
    \/ NextRun
    \/ on_preview
    \/ on_preview_return
    \/ on_preview_except
    \/ on_param_change
    \/ on_auto_preview_toggle
    \/ on_apply
    \/ on_delete_existing

SpecApp == InitApp /\ [][NextApp]_vars

\* C16: two runs on the same board, selection and configuration give the same
\* result: at every polygon of the zone loop, whatever the random draws, the
\* loop body leaves one and the same result.
C16_Deterministic ==
    (pc = "zones" /\ work # <<>>) =>
        Cardinality({process_polygon(result, Head(work), config, board, jitter) :
                        jitter \in PolygonJitters(Head(work).polygon_pts, config)}) = 1

\* The steps of a run.
RunStep == NextRun

\* C17: a stitching run, in any mode and whether it succeeds or fails, leaves
\* the board and the BoardData snapshot extracted from it as they were; a step
\* that changes the board is a step of Apply or of Delete-existing.
C17_ReadOnlyRun ==
    [][/\ RunStep => /\ board' = board
                      /\ extract_board_data(board') = extract_board_data(board)
       /\ board' # board => on_apply \/ on_delete_existing]_vars

\* A preview has returned with vias to place and none of them is on the board.
C17_Witness ==
    /\ pc = "idle"
    /\ dialog.result.valid > 0
    /\ \A i \in 1..Len(dialog.result.vias) : dialog.result.vias[i] \notin Range(board.vias)

\* The sequences of n pairwise different points.
DistinctPaths(n) ==
    {p \in [1..n -> ChainPoints] : \A i, j \in 1..n : i # j => p[i] # p[j]}

\* The segments without their order and orientation.
Undirected(segments) == {{segments[i][1], segments[i][2]} : i \in 1..Len(segments)}

\* A path with the segments it splits into.
SplitOf(p) == [path |-> p, segments |-> Undirected([i \in 1..(Len(p) - 1) |-> <<p[i], p[i + 1]>>])]

\* The selected tracks are the segments of the split s, each once, in some
\* order and orientation.
SelectedTracksAre(s) ==
    /\ Len(selection.tracks) = Len(s.path) - 1
    /\ Undirected(track_segments(selection.tracks)) = s.segments

\* The paths that split into at most MaxSegments segments, with their segments.
SplitPaths == {SplitOf(p) : p \in UNION {DistinctPaths(n) : n \in 2..(MaxSegments + 1)}}

\* No two points of the path are within the chaining tolerance of each other.
Separated(p) == \A i, j \in 1..Len(p) : i # j => ~points_close(p[i], p[j])

\* The separated ones among them.
SeparatedPaths == {s \in SplitPaths : Separated(s.path)}

\* The selected tracks have been chained into the one polyline p or its reverse.
ReassembledAs(p) ==
    /\ Len(work) = 1
    /\ work[1].path \in {p, Reverse(p)}

RECURSIVE SumOfSegments(_)
SumOfSegments(chained) ==
    IF chained = <<>> THEN 0
    ELSE Len(Head(chained).path) - 1 + SumOfSegments(Tail(chained))

\* C19: whatever the segments (junctions, closed loops, duplicates), each is
\* consumed by exactly one polyline, and the polylines of 2-point segments
\* have together one point more per polyline than there are segments.
C19_Partition ==
    pc = "done" =>
        /\ \A i \in 1..Len(selection.tracks) :
               Cardinality({k \in 1..Len(work) : i \in work[k].consumed}) = 1
        /\ \A k \in 1..Len(work) :
               /\ work[k].consumed \subseteq 1..Len(selection.tracks)
               /\ Len(work[k].path) - 1 = Cardinality(work[k].consumed)
        /\ SumOfSegments(work) = Len(selection.tracks)

\* A junction of three segments at one point has been chained: two of them
\* into one polyline, the third left as a polyline of its own.
C19_Witness ==
    /\ pc = "done"
    /\ Len(selection.tracks) = 3
    /\ \E q \in ChainPoints :
           \A i \in 1..3 : q \in Range(track_segments(selection.tracks)[i])
    /\ Cardinality(Range(track_segments(selection.tracks))) = 3
    /\ Len(work) = 2

\* C20: for a polyline of two or more points and either side, the offset path
\* has exactly as many points as the polyline.
C20_OffsetPathSize ==
    pc = "done" => Len(result.offset_pts) = Len(work[1])

\* C21 as stated: the samples of a path of two or more points start with the
\* path's first point and end with its final point, and the final point is
\* not emitted twice at the end.
C21_ResamplingEndpoints ==
    pc = "done" =>
        LET samples == result.samples
            n       == Len(samples)
            path    == work[1]
        IN  /\ samples[1] = path[1]
            /\ samples[n] = path[Len(path)]
            /\ n > 1 => samples[n - 1] # samples[n]

\* C21 amended: the samples start with the path's first point and end with
\* its final point.
C21_EndpointsOnly ==
    pc = "done" =>
        /\ result.samples[1] = work[1][1]
        /\ result.samples[Len(result.samples)] = work[1][Len(work[1])]

\* A path with a segment of no length has been sampled, and its final point
\* came less than one spacing after the sample before it.
C21_Witness ==
    /\ pc = "done"
    /\ \E i \in 1..(Len(work[1]) - 1) : work[1][i] = work[1][i + 1]
    /\ Len(result.samples) >= 3
    /\ LET n == Len(result.samples)
           s == result.samples[n - 1]
           f == result.samples[n]
       IN  /\ s # f
           /\ Abs(s[1] - f[1]) < config.fence_spacing_nm
           /\ Abs(s[2] - f[2]) < config.fence_spacing_nm

\* Edge i of the polygon, the closing edge being edge Len(polygon_pts).
EdgeOf(polygon_pts, i) == <<polygon_pts[i], polygon_pts[(i % Len(polygon_pts)) + 1]>>

EdgeLengthSq(e) ==
    (e[2][1] - e[1][1]) * (e[2][1] - e[1][1]) + (e[2][2] - e[1][2]) * (e[2][2] - e[1][2])

\* One position for an edge shorter than the spacing, floor(length / spacing)
\* otherwise.
EdgeCount(e, spacing) ==
    IF EdgeLengthSq(e) < spacing * spacing THEN 1
    ELSE CHOOSE k \in 1..EdgeLengthSq(e) :
             k * k * spacing * spacing <= EdgeLengthSq(e)
                 /\ EdgeLengthSq(e) < (k + 1) * (k + 1) * spacing * spacing

\* The number of positions of the edges before edge i.
RECURSIVE CountBefore(_, _, _)
CountBefore(polygon_pts, spacing, i) ==
    IF i = 1 THEN 0
    ELSE CountBefore(polygon_pts, spacing, i - 1)
             + EdgeCount(EdgeOf(polygon_pts, i - 1), spacing)

InEdgeBox(p, e) ==
    /\ p[1] >= SeqMin(<<e[1][1], e[2][1]>>) /\ p[1] <= SeqMax(<<e[1][1], e[2][1]>>)
    /\ p[2] >= SeqMin(<<e[1][2], e[2][2]>>) /\ p[2] <= SeqMax(<<e[1][2], e[2][2]>>)

\* C22: the positions are those of the n edges in turn, the closing edge
\* included: one position, the midpoint, for an edge shorter than the spacing,
\* floor(length / spacing) positions otherwise, each within the bounding box
\* of its edge.
C22_PerimeterFenceCount ==
    pc = "done" =>
        LET polygon_pts == work[1].polygon_pts
            spacing     == config.fence_spacing_nm
            n           == Len(polygon_pts)
        IN  /\ Len(result.positions) = CountBefore(polygon_pts, spacing, n + 1)
            /\ \A i \in 1..n :
                   LET e     == EdgeOf(polygon_pts, i)
                       first == CountBefore(polygon_pts, spacing, i) + 1
                   IN  /\ EdgeCount(e, spacing) >= 1
                       /\ \A k \in first..(first + EdgeCount(e, spacing) - 1) :
                              InEdgeBox(result.positions[k], e)
                       /\ EdgeLengthSq(e) < spacing * spacing =>
                              /\ 2 * result.positions[first][1]
                                     \in {e[1][1] + e[2][1] - 1, e[1][1] + e[2][1]}
                              /\ 2 * result.positions[first][2]
                                     \in {e[1][2] + e[2][2] - 1, e[1][2] + e[2][2]}

\* A triangle with an edge shorter than the spacing, an edge of several
\* spacings and a vertex of negative coordinates has been fenced.
C22_Witness ==
    /\ pc = "done"
    /\ Len(work[1].polygon_pts) = 3
    /\ \E i, j \in 1..3 :
           /\ EdgeLengthSq(EdgeOf(work[1].polygon_pts, i)) \in 1..(config.fence_spacing_nm * config.fence_spacing_nm - 1)
           /\ EdgeCount(EdgeOf(work[1].polygon_pts, j), config.fence_spacing_nm) >= 2
    /\ <<-7, -3>> \in Range(work[1].polygon_pts)
    /\ Len(result.positions) >= 4

\* ceil(a / b) for b > 0.
CeilDiv(a, b) == -((-a) \div b)

BoxWidth == work[1].polygon_pts[2][1] - work[1].polygon_pts[1][1]

BoxHeight == work[1].polygon_pts[2][2] - work[1].polygon_pts[1][2]

\* The points of one axis: the multiples of the spacing from lo to hi.
AxisCount(lo, hi, s) == Cardinality({v \in lo..hi : v % s = 0})

\* C23 as stated: without stagger and random offsets the grid of a box of
\* width W and height H has exactly (ceil(W/s) + 1) * (ceil(H/s) + 1) points.
C23_GridSizeCeil ==
    (pc = "done" /\ ~config.stagger_rows) =>
        Len(result.positions) = (CeilDiv(BoxWidth, config.grid_spacing_nm) + 1)
                                    * (CeilDiv(BoxHeight, config.grid_spacing_nm) + 1)

\* C23 amended: the grid has one point per pair of multiples of the spacing
\* within the box, which is floor(W/s) or floor(W/s) + 1 columns, depending
\* on where the box lies, times floor(H/s) or floor(H/s) + 1 rows.
C23_GridSize ==
    (pc = "done" /\ ~config.stagger_rows) =>
        LET box  == work[1].polygon_pts
            s    == config.grid_spacing_nm
            cols == AxisCount(box[1][1], box[2][1], s)
            rows == AxisCount(box[1][2], box[2][2], s)
        IN  /\ Len(result.positions) = cols * rows
            /\ cols \in {BoxWidth \div s, (BoxWidth \div s) + 1}
            /\ rows \in {BoxHeight \div s, (BoxHeight \div s) + 1}

\* A grid without stagger has been generated for a box that starts below the
\* origin and off the grid, with fewer columns than ceil(W/s) + 1.
C23_Witness ==
    /\ pc = "done"
    /\ ~config.stagger_rows
    /\ work[1].polygon_pts[1][1] < 0
    /\ work[1].polygon_pts[1][1] % config.grid_spacing_nm # 0
    /\ Len(result.positions) >= 4
    /\ Len(result.positions) < (CeilDiv(BoxWidth, config.grid_spacing_nm) + 1)
                                    * (CeilDiv(BoxHeight, config.grid_spacing_nm) + 1)

\* The offset of row r: half a spacing on odd rows when stagger is on.
RowOffset(r) ==
    IF config.stagger_rows /\ r % 2 = 1 THEN config.grid_spacing_nm \div 2 ELSE 0

\* (x, y) is a lattice point of the box: y is a multiple of the spacing, and x
\* is the offset of y's row past a multiple of the spacing that is in the box.
OnLattice(x, y) ==
    LET box     == work[1].polygon_pts
        s       == config.grid_spacing_nm
        start_y == CHOOSE v \in box[1][2]..(box[1][2] + s - 1) : v % s = 0
        start_x == CHOOSE v \in box[1][1]..(box[1][1] + s - 1) : v % s = 0
    IN  /\ y >= start_y /\ y <= box[2][2] /\ (y - start_y) % s = 0
        /\ LET off == RowOffset((y - start_y) \div s)
           IN  x >= start_x + off /\ x <= box[2][1] /\ (x - start_x - off) % s = 0

\* C27: without random offsets the grid is exactly the lattice of the box,
\* snapped up to multiples of the spacing on either side of the origin and
\* staggered on odd rows, within the box, rows by increasing y and each row by
\* increasing x.
C27_GridLattice ==
    pc = "done" =>
        LET box == work[1].polygon_pts
            pos == result.positions
        IN  /\ \A x \in (box[1][1] - 1)..(box[2][1] + config.grid_spacing_nm) :
                   \A y \in (box[1][2] - 1)..(box[2][2] + config.grid_spacing_nm) :
                       (<<x, y>> \in Range(pos)) <=> OnLattice(x, y)
            /\ \A k \in 1..Len(pos) :
                   /\ pos[k][1] >= box[1][1] /\ pos[k][1] <= box[2][1]
                   /\ pos[k][2] >= box[1][2] /\ pos[k][2] <= box[2][2]
            /\ \A k \in 1..(Len(pos) - 1) :
                   \/ pos[k][2] < pos[k + 1][2]
                   \/ pos[k][2] = pos[k + 1][2] /\ pos[k][1] < pos[k + 1][1]

\* A staggered grid of at least two rows has been generated for a box with
\* negative corners off the grid, its second row moved by half a spacing.
C27_Witness ==
    /\ pc = "done"
    /\ config.stagger_rows
    /\ work[1].polygon_pts[1][1] < 0 /\ work[1].polygon_pts[1][2] < 0
    /\ work[1].polygon_pts[1][1] % config.grid_spacing_nm # 0
    /\ \E k \in 1..Len(result.positions) :
           result.positions[k][1] % config.grid_spacing_nm # 0
    /\ \E k \in 1..Len(result.positions) : result.positions[k][1] < 0

\* The turn at vertex i: the cross product of the edges into and out of it.
TurnAt(polygon_pts, i) ==
    LET n == Len(polygon_pts)
        a == polygon_pts[IF i = 1 THEN n ELSE i - 1]
        b == polygon_pts[i]
        c == polygon_pts[(i % n) + 1]
    IN  (b[1] - a[1]) * (c[2] - b[2]) - (b[2] - a[2]) * (c[1] - b[1])

IsConvex(polygon_pts) ==
    \/ \A i \in 1..Len(polygon_pts) : TurnAt(polygon_pts, i) > 0
    \/ \A i \in 1..Len(polygon_pts) : TurnAt(polygon_pts, i) < 0

ClearOfEdges(x, y, polygon_pts) ==
    \A i \in 1..Len(polygon_pts) :
        LET a == polygon_pts[IF i = 1 THEN Len(polygon_pts) ELSE i - 1]
            b == polygon_pts[i]
        IN  (b[2] > y) # (a[2] > y) =>
                Abs((a[1] - b[1]) * (y - b[2]) + (b[1] - x) * (a[2] - b[2])) >= Abs(a[2] - b[2])

C25_SegmentSymmetry ==
    pc = "done" => result.forward = result.backward

\* The first and the last point of a polyline.
EndPoints(path) == {path[1], path[Len(path)]}

\* C26: when the chainer returns no merge is left: no end point of a polyline
\* is within the tolerance of an end point of another polyline.
C26_Maximality ==
    pc = "done" =>
        \A k, l \in 1..Len(work) :
            k # l => \A e \in EndPoints(work[k].path), f \in EndPoints(work[l].path) :
                         ~points_close(e, f)

\* Three segments have been chained into two polylines, one of them of two
\* segments, the other ending within the tolerance of a point inside it.
C26_Witness ==
    /\ pc = "done"
    /\ Len(selection.tracks) = 3
    /\ Len(work) = 2
    /\ \E k, l \in 1..2 :
           /\ k # l
           /\ Len(work[k].path) = 3
           /\ \E e \in EndPoints(work[l].path) : points_close(e, work[k].path[2])

\* C28: any two vias accepted in one run have their centres at least one via
\* diameter apart.
C28_AcceptedViasApart ==
    \A i, j \in 1..Len(result.vias) :
        i < j => ~SqrtLess((result.vias[i].x - result.vias[j].x) * (result.vias[i].x - result.vias[j].x)
                             + (result.vias[i].y - result.vias[j].y) * (result.vias[i].y - result.vias[j].y),
                           config.via_diameter_nm)

\* C29: Apply places the current preview: over any sequence of dialog events,
\* the vias a step of Apply creates on the board are the accepted vias of a
\* preview that completes with the configuration the dialog shows at that
\* moment, and no step creates a via while no preview has returned one.
C29_ApplyPlacesCurrentPreview ==
    [][/\ on_apply =>
              /\ board'.vias = board.vias \o dialog.result.vias
              /\ dialog.result.vias = generate_via_stitching(board, dialog.shown, selection).vias
       /\ dialog.result.vias = <<>> => Range(board'.vias) \subseteq Range(board.vias)]_vars

\* The number of merges a pass of the chainer has made so far: the used
\* segments that did not start a path.
Merges == Cardinality(work.used) - Len(work.paths) - (IF pc = "chain_while" THEN 1 ELSE 0)

\* C30: with positive grid and fence spacing a run terminates: the loops of
\* the grid, of the resampler and of the chainer reach their return; a pass
\* of the chainer's merge loop either marks at least one more unused segment
\* or was the last one of its path, so that there are never more merges than
\* segments; the grid's x and y and the resampler's pos grow by the spacing
\* on every iteration of their loops, which are left as soon as the bounding
\* box or the segment end is passed.
C30_Terminates ==
    /\ <>(pc = "done")
    /\ [][/\ (pc = "chain_while" /\ work.changed) =>
                 /\ work.used \subseteq work'.used
                 /\ work'.used \subseteq 1..Len(work.segments)
                 /\ work'.changed <=> work'.used # work.used
          /\ (pc = "chain_while" /\ ~work.changed) => pc' = "chain_segs"
          /\ pc \in {"chain_segs", "chain_while"} => Merges < Len(work.segments)
          /\ pc = "grid_cols" =>
                 IF work.x <= work.box[2][1]
                 THEN pc' = pc /\ work'.x = work.x + config.grid_spacing_nm /\ work'.x > work.x
                 ELSE pc' = "grid_rows" /\ work'.y = work.y + config.grid_spacing_nm
                                        /\ work'.y > work.y
          /\ pc = "grid_rows" => (pc' = "done" <=> work.y > work.box[2][2])
          /\ pc = "sample_walk" =>
                 IF work.pos <= work.seg_len
                 THEN pc' = pc /\ work'.pos = work.pos + config.fence_spacing_nm
                               /\ work'.pos > work.pos
                 ELSE pc' = "sample_segs" /\ work'.i = work.i + 1]_vars

\* The loops have returned what the functions return: a grid of several
\* rows, a path sampled several times on a segment, tracks chained by a
\* second pass of the merge loop.
C30_Witness ==
    /\ pc = "done"
    /\ \/ /\ work.fn = "generate_grid_positions"
          /\ work.row > 1
          /\ result.positions = GridLattice(work.box[1][1], work.box[1][2],
                                            work.box[2][1], work.box[2][2], config)
          /\ Len(result.positions) > 3
       \/ /\ work.fn = "sample_path_at_intervals"
          /\ result.samples = sample_path_at_intervals(work.path, config.fence_spacing_nm)
          /\ Len(result.samples) > Len(work.path) + 1
       \/ /\ work.fn = "chain_tracks_into_paths"
          /\ result.paths = chain_tracks_into_paths(
                                [k \in 1..Len(work.segments) |->
                                    StraightTrack(work.segments[k][1][1], work.segments[k][1][2],
                                                  work.segments[k][2][1], work.segments[k][2][2])])
          /\ Len(work.segments) = 3
          /\ Len(result.paths) = 1

=============================================================================
